---- MODULE Spec2Model ----
(***************************************************************************)
(* Model of the DataGrid core: the row Virtualizer (src/core/virtual.ts),  *)
(* the GridStore (src/core/store.ts) and the commit protocol of the cell   *)
(* editor (src/components/DataGrid/GridCell.tsx).                          *)
(***************************************************************************)
EXTENDS Integers, Sequences, FiniteSets, TLC

VARIABLES
    options,      \* Virtualizer.options
    range,        \* what calculateRange returned for the current options
    fresh,        \* TRUE iff calculateRange was called since the last setOptions
    layoutOptions, \* the options of the ColumnVirtualizer.calculateLayout call
    layout,       \* <<>> or <<what calculateLayout returned for layoutOptions>>
    data,         \* DataGrid: the data prop
    gridSort,     \* DataGrid: the sort state of the component
    cursorPosition, \* DataGrid: <<>> (null) or <<[rowId, colId]>>
    rowMap,       \* GridState.rowMap: RowId -> row
    rowOrder,     \* GridState.rowOrder: sequence of RowId
    sort,         \* GridState.sort: sequence of SortDescriptor
    editingCell,  \* GridState.editingCell: <<>> (null) or <<EditingState>>
    columnOrder,  \* GridState.columnOrder: sequence of ColumnId
    columnWidths, \* GridState.columnWidths: ColumnId -> width
    columnVisibility, \* GridState.columnVisibility: ColumnId -> BOOLEAN
    focusedCell,  \* GridState.focusedCell: <<>> (null) or <<[rowId, colId]>>
    listeners,    \* GridStore.listeners, in insertion order
    notifying,    \* TRUE while notify's forEach is running
    cursor,       \* number of entries of listeners the running forEach has passed
    pass,         \* what the current (or last) notification pass did
    pending,      \* the onCellEdit calls in flight, with the closure of commit
    outcome,      \* <<>> or the commit attempt whose failure handler just ran
    loaded,       \* <<>> or the collection the setData call just made was given
    heap,         \* the objects allocated so far; a reference is an index
    stateRef,     \* GridStore.state: reference of the current snapshot object
    issued,       \* the snapshots handed out, each with the contents it had then
    toggled,      \* <<>> or the toggleSort call just made, with the state before it
    lastCall      \* <<>> or the store operation just called, with the state before it

gridVars == <<data, gridSort, cursorPosition>>

virtVars == <<options, range, fresh, layoutOptions, layout, data, gridSort, cursorPosition>>

stateVars == <<rowMap, rowOrder, sort, editingCell, columnOrder, columnWidths,
               columnVisibility, focusedCell>>

notifyVars == <<listeners, notifying, cursor, pass>>

commitVars == <<pending, outcome, loaded>>

heapVars == <<heap, stateRef, issued>>

vars == <<options, range, fresh, layoutOptions, layout, data, gridSort, cursorPosition,
          rowMap, rowOrder, sort, editingCell,
          columnOrder, columnWidths, columnVisibility, focusedCell, listeners, notifying, cursor, pass, pending, outcome, loaded,
          heap, stateRef, issued, toggled, lastCall>>

(***************************************************************************)
(* Bounds                                                                  *)
(***************************************************************************)
MaxCount == 3
MaxItemSize == 2
MaxScroll == 7
ScrollBelow == 3
MaxContainer == 3
ContainerBelow == 1
MaxOverscan == 1
MaxRows == 2
MaxVal == 2
NumListeners == 2
MaxCalls == 2
MaxPending == 1
\* validations awaited at once in the runs with overlapping commits
MaxOverlap == 2
MaxSnapshots == 4
MaxPinned == 2
MaxHidden == 1
MaxColumnWidth == 1
MaxScrollLeft == 2
MaxViewportWidth == 0
MaxPixelOverscan == 0

(***************************************************************************)
(* Arithmetic helpers                                                      *)
(***************************************************************************)
Max(a, b) == IF a >= b THEN a ELSE b

Min(a, b) == IF a <= b THEN a ELSE b

\* Math.floor(a / b) for b > 0
Floor(a, b) == a \div b

\* Math.ceil(a / b) for b > 0
Ceil(a, b) == 0 - ((0 - a) \div b)

(***************************************************************************)
(* Virtualizer                                                             *)
(***************************************************************************)
VirtualizerOptions ==
    [count : 0..MaxCount,
     scrollOffset : (0 - ScrollBelow)..MaxScroll,
     containerSize : (0 - ContainerBelow)..MaxContainer,
     itemSize : 1..MaxItemSize,
     overscan : 0..MaxOverscan]

EmptyRange == [startIndex |-> 0, endIndex |-> 0, items |-> <<>>, totalSize |-> 0]

startIndexCeil(scrollOffset, itemSize) == Max(0, Ceil(scrollOffset, itemSize))

startIndex(scrollOffset, itemSize) == Max(0, Floor(scrollOffset, itemSize))

endIndex(count, scrollOffset, containerSize, itemSize) ==
    Min(count - 1, Ceil(scrollOffset + containerSize, itemSize))

\* a render window that always runs to the last row
renderEndIndexToLast(count, end, overscan) == count - 1

renderStartIndex(start, overscan) == Max(0, start - overscan)

renderEndIndex(count, end, overscan) == Min(count - 1, end + overscan)

VirtualItems(first, last, itemSize) ==
    IF last < first THEN <<>>
    ELSE [k \in 1..(last - first + 1) |->
            [index |-> first + k - 1,
             start |-> (first + k - 1) * itemSize,
             size  |-> itemSize,
             end   |-> (first + k) * itemSize]]

calculateRange(o) ==
    IF o.count = 0 THEN EmptyRange
    ELSE LET itemSize == o.itemSize
             totalSize == o.count * itemSize
             s == startIndex(o.scrollOffset, itemSize)
             e == endIndex(o.count, o.scrollOffset, o.containerSize, itemSize)
             rs == renderStartIndex(s, o.overscan)
             re == renderEndIndex(o.count, e, o.overscan)
         IN [startIndex |-> rs,
             endIndex   |-> re,
             items      |-> VirtualItems(rs, re, itemSize),
             totalSize  |-> totalSize]

(***************************************************************************)
(* GridStore: data model                                                   *)
(***************************************************************************)
RowIds == 1..MaxRows

Cols == {"a", "b"}

\* null / undefined cell value
Null == 0

Vals == 0..MaxVal

\* the column definitions the store is constructed from
ColumnWidth == 80

ColumnDefs == <<[id |-> "a", width |-> ColumnWidth], [id |-> "b", width |-> ColumnWidth],
                [id |-> "c", width |-> ColumnWidth]>>

\* Math.max(50, width)
MinColumnWidth == 50

\* The explored data sets: column "a" takes every value, column "b" is a
\* non-null secondary key fixed per row id (equal for ids of the same parity).
ColB(id) == 1 + (id % 2)

Rows == {[id |-> id, a |-> v, b |-> ColB(id)] : id \in RowIds, v \in Vals}

getRowId(row) == row.id

Range(seq) == {seq[i] : i \in DOMAIN seq}

IndexOf(seq, x) ==
    IF x \in Range(seq) THEN CHOOSE i \in DOMAIN seq : seq[i] = x /\ \A j \in 1..(i - 1) : seq[j] # x
    ELSE 0

Without(seq, x) == SelectSeq(seq, LAMBDA y : y # x)

RemoveAt(seq, i) == SubSeq(seq, 1, i - 1) \o SubSeq(seq, i + 1, Len(seq))

MapSet(m, k, v) == [x \in (DOMAIN m) \cup {k} |-> IF x = k THEN v ELSE m[x]]

\* { ...a, ...b }
Spread(a, b) == [f \in (DOMAIN a) \cup (DOMAIN b) |-> IF f \in DOMAIN b THEN b[f] ELSE a[f]]

getState == [rowMap |-> rowMap, rowOrder |-> rowOrder, sort |-> sort,
             editingCell |-> editingCell, columnOrder |-> columnOrder,
             columnWidths |-> columnWidths, columnVisibility |-> columnVisibility,
             focusedCell |-> focusedCell]

(***************************************************************************)
(* GridStore: subscribe / notify                                           *)
(***************************************************************************)
Listeners == 1..NumListeners

\* Bookkeeping of one notification pass: the listeners registered when it
\* started, how often each listener was called and with which snapshot, and
\* the listeners subscribed or unsubscribed since it started.  gone outlives
\* the pass: the listeners whose unsubscribe function was called last.
IdlePass == [start |-> {},
             called |-> [l \in Listeners |-> 0],
             received |-> [l \in Listeners |-> <<>>],
             changed |-> {},
             gone |-> {}]

\* the bookkeeping after subscribe(l)
Subscribed(p, l) == [p EXCEPT !.changed = @ \cup {l}, !.gone = @ \ {l}]

\* the bookkeeping after the unsubscribe function of l
Unsubscribed(p, seq, l) ==
    [p EXCEPT !.changed = @ \cup {l},
              !.gone = IF l \in Range(seq) THEN @ \cup {l} ELSE @]

\* listeners.add(l)
SetAdd(seq, l) == IF l \in Range(seq) THEN seq ELSE Append(seq, l)

\* listeners.delete(l)
SetDelete(seq, l) == Without(seq, l)

\* position of forEach after l is deleted: an entry already passed drops out
CursorAfterDelete(seq, cur, l) ==
    IF IndexOf(seq, l) # 0 /\ IndexOf(seq, l) <= cur THEN cur - 1 ELSE cur

\* an unsubscribe function that leaves the listener registered
unsubscribeKeeps(l) ==
    /\ ~notifying
    /\ listeners' = listeners
    /\ pass' = Unsubscribed(pass, listeners, l)
    /\ UNCHANGED <<notifying, cursor>>

subscribe(l) ==
    /\ ~notifying
    /\ listeners' = SetAdd(listeners, l)
    /\ pass' = Subscribed(pass, l)
    /\ UNCHANGED <<notifying, cursor>>

unsubscribe(l) ==
    /\ ~notifying
    /\ listeners' = SetDelete(listeners, l)
    /\ pass' = Unsubscribed(pass, listeners, l)
    /\ UNCHANGED <<notifying, cursor>>

\* notify(): start of listeners.forEach over the live set
notify ==
    /\ notifying' = (Len(listeners) > 0)
    /\ cursor' = 0
    /\ pass' = [IdlePass EXCEPT !.start = Range(listeners), !.gone = pass.gone]
    /\ UNCHANGED listeners

setState(update) ==
    /\ ~notifying
    /\ LET nextState == Spread(getState, update)
       IN /\ rowMap' = nextState.rowMap
          /\ rowOrder' = nextState.rowOrder
          /\ sort' = nextState.sort
          /\ editingCell' = nextState.editingCell
          /\ columnOrder' = nextState.columnOrder
          /\ columnWidths' = nextState.columnWidths
          /\ columnVisibility' = nextState.columnVisibility
          /\ focusedCell' = nextState.focusedCell
          /\ notify

\* What a listener does while it is being called
ListenerEffects ==
    {<<"none", 0>>} \cup {<<k, l>> : k \in {"subscribe", "unsubscribe"}, l \in Listeners}

\* one iteration of listeners.forEach(listener => listener(this.state))
CallListener(effect) ==
    /\ notifying
    /\ cursor < Len(listeners)
    /\ LET l == listeners[cursor + 1]
           cur == cursor + 1
       IN /\ pass.called[l] < MaxCalls
          /\ listeners' = CASE effect[1] = "subscribe" -> SetAdd(listeners, effect[2])
                            [] effect[1] = "unsubscribe" -> SetDelete(listeners, effect[2])
                            [] OTHER -> listeners
          /\ cursor' = IF effect[1] = "unsubscribe"
                       THEN CursorAfterDelete(listeners, cur, effect[2])
                       ELSE cur
          /\ pass' = LET p == [pass EXCEPT !.called[l] = @ + 1, !.received[l] = <<getState>>]
                     IN CASE effect[1] = "subscribe" -> Subscribed(p, effect[2])
                          [] effect[1] = "unsubscribe" -> Unsubscribed(p, listeners, effect[2])
                          [] OTHER -> p
          /\ notifying' = (cursor' < Len(listeners'))
    /\ UNCHANGED stateVars

(***************************************************************************)
(* GridStore: sorting                                                      *)
(***************************************************************************)
\* body of the for loop of the comparator in sortRows
RECURSIVE compareBy(_, _, _)
compareBy(rowA, rowB, descriptors) ==
    IF descriptors = <<>> THEN 0
    ELSE LET s == Head(descriptors)
             valA == IF s.columnId \in DOMAIN rowA THEN rowA[s.columnId] ELSE Null
             valB == IF s.columnId \in DOMAIN rowB THEN rowB[s.columnId] ELSE Null
             direction == IF s.direction = "asc" THEN 1 ELSE 0 - 1
         IN IF valA = valB THEN compareBy(rowA, rowB, Tail(descriptors))
            ELSE IF valA = Null THEN 1 * direction
            ELSE IF valB = Null THEN (0 - 1) * direction
            ELSE IF valA < valB THEN (0 - 1) * direction
            ELSE IF valA > valB THEN 1 * direction
            ELSE compareBy(rowA, rowB, Tail(descriptors))

\* the comparator handed to Array.prototype.sort in sortRows
comparator(state, aId, bId) ==
    IF aId \notin DOMAIN state.rowMap \/ bId \notin DOMAIN state.rowMap THEN 0
    ELSE compareBy(state.rowMap[aId], state.rowMap[bId], state.sort)

\* one step of a stable sort: x goes before the first element that must follow it
InsertStable(sorted, x, state) ==
    LET after == {j \in DOMAIN sorted : comparator(state, sorted[j], x) > 0}
        k == IF after = {} THEN Len(sorted) + 1
             ELSE CHOOSE j \in after : \A m \in after : j <= m
    IN SubSeq(sorted, 1, k - 1) \o <<x>> \o SubSeq(sorted, k, Len(sorted))

\* Array.prototype.sort (stable) under the comparator of sortRows
ArraySort(seq, state) ==
    LET F[n \in 0..Len(seq)] ==
            IF n = 0 THEN <<>> ELSE InsertStable(F[n - 1], seq[n], state)
    IN F[Len(seq)]

\* sortRows that orders by the first descriptor only
sortRowsByFirst(state) ==
    IF Len(state.sort) = 0 THEN state.rowOrder
    ELSE ArraySort(state.rowOrder, [state EXCEPT !.sort = <<state.sort[1]>>])

sortRows(state) ==
    IF Len(state.sort) = 0 THEN state.rowOrder
    ELSE ArraySort(state.rowOrder, state)

(***************************************************************************)
(* GridStore: actions                                                      *)
(***************************************************************************)
\* single-sort mode that goes from descending back to ascending
singleSortTwoWay(sortSeq, columnId) ==
    LET existing == {i \in DOMAIN sortSeq : sortSeq[i].columnId = columnId}
        existingSort == sortSeq[CHOOSE i \in existing : \A j \in existing : i <= j]
    IN IF existing # {}
       THEN IF existingSort.direction = "asc"
            THEN <<[columnId |-> columnId, direction |-> "desc"]>>
            ELSE <<[columnId |-> columnId, direction |-> "asc"]>>
       ELSE <<[columnId |-> columnId, direction |-> "asc"]>>

\* newSort of toggleSort in single-sort mode
singleSort(sortSeq, columnId) ==
    LET existing == {i \in DOMAIN sortSeq : sortSeq[i].columnId = columnId}
        existingSort == sortSeq[CHOOSE i \in existing : \A j \in existing : i <= j]
    IN IF existing # {}
       THEN IF existingSort.direction = "asc"
            THEN <<[columnId |-> columnId, direction |-> "desc"]>>
            ELSE <<>>
       ELSE <<[columnId |-> columnId, direction |-> "asc"]>>

\* multi-sort mode that moves a flipped descriptor to the end
multiSortFlipsLast(sortSeq, columnId) ==
    LET existing == {i \in DOMAIN sortSeq : sortSeq[i].columnId = columnId}
        existingSort == sortSeq[CHOOSE i \in existing : \A j \in existing : i <= j]
    IN IF existing # {}
       THEN IF existingSort.direction = "asc"
            THEN Append(SelectSeq(sortSeq, LAMBDA s : s.columnId # columnId),
                        [columnId |-> columnId, direction |-> "desc"])
            ELSE SelectSeq(sortSeq, LAMBDA s : s.columnId # columnId)
       ELSE Append(sortSeq, [columnId |-> columnId, direction |-> "asc"])

\* multi-sort mode that appends a fresh descriptor where it should remove one
multiSortAppendsAgain(sortSeq, columnId) ==
    LET existing == {i \in DOMAIN sortSeq : sortSeq[i].columnId = columnId}
        existingSort == sortSeq[CHOOSE i \in existing : \A j \in existing : i <= j]
    IN IF existing # {}
       THEN IF existingSort.direction = "asc"
            THEN [i \in DOMAIN sortSeq |->
                    IF sortSeq[i].columnId = columnId
                    THEN [sortSeq[i] EXCEPT !.direction = "desc"]
                    ELSE sortSeq[i]]
            ELSE Append(sortSeq, [columnId |-> columnId, direction |-> "asc"])
       ELSE Append(sortSeq, [columnId |-> columnId, direction |-> "asc"])

\* newSort of toggleSort in multi-sort mode
multiSort(sortSeq, columnId) ==
    LET existing == {i \in DOMAIN sortSeq : sortSeq[i].columnId = columnId}
        existingSort == sortSeq[CHOOSE i \in existing : \A j \in existing : i <= j]
    IN IF existing # {}
       THEN IF existingSort.direction = "asc"
            THEN [i \in DOMAIN sortSeq |->
                    IF sortSeq[i].columnId = columnId
                    THEN [sortSeq[i] EXCEPT !.direction = "desc"]
                    ELSE sortSeq[i]]
            ELSE SelectSeq(sortSeq, LAMBDA s : s.columnId # columnId)
       ELSE Append(sortSeq, [columnId |-> columnId, direction |-> "asc"])

toggleSortUpdate(prev, columnId, multi) ==
    LET newSort == IF ~multi THEN singleSort(prev.sort, columnId)
                   ELSE multiSort(prev.sort, columnId)
        sortedRowOrder == sortRows([prev EXCEPT !.sort = newSort])
    IN [sort |-> newSort, rowOrder |-> sortedRowOrder]

toggleSort(columnId, multi) == setState(toggleSortUpdate(getState, columnId, multi))

\* resizeColumn without the minimum width
resizeColumnNoFloor(prev, columnId, width) ==
    [prev EXCEPT !.columnWidths = MapSet(prev.columnWidths, columnId, width)]

resizeColumnUpdate(prev, columnId, width) ==
    [prev EXCEPT !.columnWidths = MapSet(prev.columnWidths, columnId, Max(MinColumnWidth, width))]

resizeColumn(columnId, width) == setState(resizeColumnUpdate(getState, columnId, width))

\* !prev.columnVisibility[columnId]: a missing entry is undefined, which is falsy
toggleColumnVisibilityUpdate(prev, columnId) ==
    [columnVisibility |->
        MapSet(prev.columnVisibility, columnId,
               ~(columnId \in DOMAIN prev.columnVisibility /\ prev.columnVisibility[columnId]))]

toggleColumnVisibility(columnId) ==
    setState(toggleColumnVisibilityUpdate(getState, columnId))

\* newOrder.splice(at, 0, x) on a sequence, at counted from 0
InsertAt(seq, at, x) ==
    LET k == Min(at, Len(seq))
    IN SubSeq(seq, 1, k) \o <<x>> \o SubSeq(seq, k + 1, Len(seq))

\* moveColumn that exchanges the two columns
moveColumnSwaps(prev, dragColumnId, hoverColumnId) ==
    LET newOrder == prev.columnOrder
        dragIndex == IndexOf(newOrder, dragColumnId) - 1
        hoverIndex == IndexOf(newOrder, hoverColumnId) - 1
    IN IF dragIndex = 0 - 1 \/ hoverIndex = 0 - 1 \/ dragIndex = hoverIndex THEN prev
       ELSE [columnOrder |-> [i \in DOMAIN newOrder |->
                                 IF i = dragIndex + 1 THEN hoverColumnId
                                 ELSE IF i = hoverIndex + 1 THEN dragColumnId
                                 ELSE newOrder[i]]]

moveColumnUpdate(prev, dragColumnId, hoverColumnId) ==
    LET newOrder == prev.columnOrder
        dragIndex == IndexOf(newOrder, dragColumnId) - 1
        hoverIndex == IndexOf(newOrder, hoverColumnId) - 1
    IN IF dragIndex = 0 - 1 \/ hoverIndex = 0 - 1 \/ dragIndex = hoverIndex THEN prev
       ELSE [columnOrder |-> InsertAt(RemoveAt(newOrder, dragIndex + 1), hoverIndex, dragColumnId)]

moveColumn(dragColumnId, hoverColumnId) ==
    setState(moveColumnUpdate(getState, dragColumnId, hoverColumnId))

\* startEdit that does not remember the value the edit started from
startEditNoOriginal(rowId, colId, value) ==
    [editingCell |-> <<[rowId |-> rowId, colId |-> colId, value |-> value,
                        originalValue |-> Null, isSaving |-> FALSE, error |-> <<>>]>>]

startEditUpdate(rowId, colId, value) ==
    [editingCell |-> <<[rowId |-> rowId, colId |-> colId, value |-> value,
                        originalValue |-> value, isSaving |-> FALSE, error |-> <<>>]>>]

startEdit(rowId, colId, value) == setState(startEditUpdate(rowId, colId, value))

\* updateEditValue that keeps the error
updateEditValueKeepsError(prev, value) ==
    IF prev.editingCell # <<>>
    THEN [editingCell |-> <<[prev.editingCell[1] EXCEPT !.value = value]>>]
    ELSE <<>>

updateEditValueUpdate(prev, value) ==
    IF prev.editingCell # <<>>
    THEN [editingCell |-> <<[prev.editingCell[1] EXCEPT !.value = value, !.error = <<>>]>>]
    ELSE <<>>

updateEditValue(value) == setState(updateEditValueUpdate(getState, value))

cancelEdit == setState([editingCell |-> <<>>])

setEditSavingUpdate(prev, isSaving) ==
    IF prev.editingCell # <<>>
    THEN [editingCell |-> <<[prev.editingCell[1] EXCEPT !.isSaving = isSaving]>>]
    ELSE <<>>

setEditSaving(isSaving) == setState(setEditSavingUpdate(getState, isSaving))

\* setEditError that opens an editing state when there is none
setEditErrorCreates(prev, error) ==
    IF prev.editingCell # <<>>
    THEN [editingCell |-> <<[prev.editingCell[1] EXCEPT !.error = error, !.isSaving = FALSE]>>]
    ELSE [editingCell |-> <<[rowId |-> 1, colId |-> "a", value |-> Null,
                             originalValue |-> Null, isSaving |-> FALSE, error |-> error]>>]

setEditErrorUpdate(prev, error) ==
    IF prev.editingCell # <<>>
    THEN [editingCell |-> <<[prev.editingCell[1] EXCEPT !.error = error, !.isSaving = FALSE]>>]
    ELSE <<>>

setEditError(error) == setState(setEditErrorUpdate(getState, error))

\* setData that leaves the new rows in the given order whatever the sort is
setDataKeepsGivenOrder(prev, rows) ==
    LET ids == {getRowId(rows[i]) : i \in DOMAIN rows}
        newRowMap == [id \in ids |-> rows[CHOOSE i \in DOMAIN rows : getRowId(rows[i]) = id]]
    IN [prev EXCEPT !.rowMap = newRowMap,
                    !.rowOrder = [i \in DOMAIN rows |-> getRowId(rows[i])]]

\* setData in which the first row of an id is the one kept
setDataKeepsFirst(prev, rows) ==
    LET ids == {getRowId(rows[i]) : i \in DOMAIN rows}
        first(id) == CHOOSE i \in DOMAIN rows :
                         /\ getRowId(rows[i]) = id
                         /\ \A j \in DOMAIN rows : getRowId(rows[j]) = id => i <= j
        nextState == [prev EXCEPT !.rowMap = [id \in ids |-> rows[first(id)]],
                                  !.rowOrder = [i \in DOMAIN rows |-> getRowId(rows[i])]]
    IN IF Len(prev.sort) > 0
       THEN [nextState EXCEPT !.rowOrder = sortRows(nextState)]
       ELSE nextState

setDataUpdate(prev, rows) ==
    LET ids == {getRowId(rows[i]) : i \in DOMAIN rows}
        last(id) == CHOOSE i \in DOMAIN rows :
                        /\ getRowId(rows[i]) = id
                        /\ \A j \in DOMAIN rows : getRowId(rows[j]) = id => j <= i
        newRowMap == [id \in ids |-> rows[last(id)]]
        newRowOrder == [i \in DOMAIN rows |-> getRowId(rows[i])]
        nextState == [prev EXCEPT !.rowMap = newRowMap, !.rowOrder = newRowOrder]
    IN IF Len(prev.sort) > 0
       THEN [nextState EXCEPT !.rowOrder = sortRows(nextState)]
       ELSE nextState

setData(rows) == setState(setDataUpdate(getState, rows))

\* updateRow without the guard for a missing row
updateRowUpsert(prev, rowId, updates) ==
    LET row == IF rowId \in DOMAIN prev.rowMap THEN prev.rowMap[rowId]
               ELSE [id |-> rowId, a |-> Null, b |-> Null]
    IN [prev EXCEPT !.rowMap = MapSet(prev.rowMap, rowId, Spread(row, updates))]

\* updateRow that sorts the rows again after the update
updateRowResorts(prev, rowId, updates) ==
    IF rowId \notin DOMAIN prev.rowMap THEN prev
    ELSE LET newRow == Spread(prev.rowMap[rowId], updates)
             next == [prev EXCEPT !.rowMap = MapSet(prev.rowMap, rowId, newRow)]
         IN [next EXCEPT !.rowOrder = sortRows(next)]

updateRowUpdate(prev, rowId, updates) ==
    IF rowId \notin DOMAIN prev.rowMap THEN prev
    ELSE LET row == prev.rowMap[rowId]
             newRow == Spread(row, updates)
         IN [prev EXCEPT !.rowMap = MapSet(prev.rowMap, rowId, newRow)]

updateRow(rowId, updates) == setState(updateRowUpdate(getState, rowId, updates))

\* commitEdit that writes the row but keeps the editor open in the saving state
commitEditKeepsEditor(prev) ==
    IF prev.editingCell = <<>> THEN prev
    ELSE LET e == prev.editingCell[1]
         IN IF e.rowId \notin DOMAIN prev.rowMap THEN [prev EXCEPT !.editingCell = <<>>]
            ELSE [prev EXCEPT
                    !.rowMap = MapSet(prev.rowMap, e.rowId,
                                      Spread(prev.rowMap[e.rowId], (e.colId :> e.value))),
                    !.editingCell = <<[e EXCEPT !.isSaving = TRUE]>>]

\* commitEdit that keeps the editing state of a row that no longer exists
commitEditKeepsOrphan(prev) ==
    IF prev.editingCell = <<>> THEN prev
    ELSE LET e == prev.editingCell[1]
         IN IF e.rowId \notin DOMAIN prev.rowMap THEN prev
            ELSE LET row == prev.rowMap[e.rowId]
                     newRow == Spread(row, (e.colId :> e.value))
                 IN [prev EXCEPT !.rowMap = MapSet(prev.rowMap, e.rowId, newRow),
                                 !.editingCell = <<>>]

commitEditUpdate(prev) ==
    IF prev.editingCell = <<>> THEN prev
    ELSE LET e == prev.editingCell[1]
         IN IF e.rowId \notin DOMAIN prev.rowMap THEN [prev EXCEPT !.editingCell = <<>>]
            ELSE LET row == prev.rowMap[e.rowId]
                     newRow == Spread(row, (e.colId :> e.value))
                 IN [prev EXCEPT !.rowMap = MapSet(prev.rowMap, e.rowId, newRow),
                                 !.editingCell = <<>>]

commitEdit == setState(commitEditUpdate(getState))

(***************************************************************************)
(* GridStore on the heap: the same handlers, with the objects they          *)
(* allocate, copy and write.  A reference is an index of heap; the          *)
(* snapshot, its Map, its arrays, its records, the rows, the sort           *)
(* descriptors and the editing state are objects.  An operator returns the  *)
(* heap after the handler, in which the object allocated last is nextState  *)
(* of setState.                                                             *)
(***************************************************************************)
\* obj[field] = v, arr.push, map.set: a write into an existing object
HeapWrite(h, ref, v) == [h EXCEPT ![ref] = v]

\* the contents reachable from a snapshot object, in the shape of getState
Deep(h, top) ==
    LET t == h[top]
    IN [rowMap |-> [id \in DOMAIN h[t.rowMap] |-> h[h[t.rowMap][id]]],
        rowOrder |-> h[t.rowOrder],
        sort |-> [i \in DOMAIN h[t.sort] |-> h[h[t.sort][i]]],
        editingCell |-> IF t.editingCell = 0 THEN <<>> ELSE <<h[t.editingCell]>>,
        columnOrder |-> h[t.columnOrder],
        columnWidths |-> h[t.columnWidths],
        columnVisibility |-> h[t.columnVisibility],
        focusedCell |-> t.focusedCell]

\* the objects the constructor allocates: rowMap, rowOrder, sort, columnWidths,
\* columnOrder, columnVisibility and mergedState
InitialHeap ==
    <<<< >>, << >>, << >>,
      [c \in {ColumnDefs[i].id : i \in DOMAIN ColumnDefs} |->
          ColumnDefs[CHOOSE i \in DOMAIN ColumnDefs : ColumnDefs[i].id = c].width],
      [i \in DOMAIN ColumnDefs |-> ColumnDefs[i].id],
      [c \in {ColumnDefs[i].id : i \in DOMAIN ColumnDefs} |-> TRUE],
      [rowMap |-> 1, rowOrder |-> 2, sort |-> 3, editingCell |-> 0,
       columnWidths |-> 4, columnOrder |-> 5, columnVisibility |-> 6,
       focusedCell |-> << >>]>>

\* sortRows(state) for the snapshot-shaped object at ref: [...rowOrder], sorted
\* in place when there is a sort; the array is the object allocated last
sortRowsHeap(h, ref) ==
    LET h1 == Append(h, h[h[ref].rowOrder])
    IN IF Len(h1[h[ref].sort]) = 0 THEN h1
       ELSE HeapWrite(h1, Len(h1), sortRows(Deep(h1, ref)))

toggleSortHeap(h, top, columnId, multi) ==
    LET prev == h[top]
        h1 == Append(h, h[prev.sort])
        copy == Len(h1)
        arr == h1[copy]
        matches == {i \in DOMAIN arr : h1[arr[i]].columnId = columnId}
        existingSort == h1[arr[CHOOSE i \in matches : \A j \in matches : i <= j]]
        one(dir) == LET g == Append(h1, [columnId |-> columnId, direction |-> dir])
                    IN Append(g, <<Len(g)>>)
        flipped == LET objs == [k \in 1..Cardinality(matches) |->
                                  [h1[arr[CHOOSE i \in matches :
                                            Cardinality({j \in matches : j <= i}) = k]]
                                   EXCEPT !.direction = "desc"]]
                       g == h1 \o objs
                   IN Append(g, [i \in DOMAIN arr |->
                                   IF i \in matches
                                   THEN Len(h1) + Cardinality({j \in matches : j <= i})
                                   ELSE arr[i]])
        pushed == LET g == Append(h1, [columnId |-> columnId, direction |-> "asc"])
                  IN HeapWrite(g, copy, Append(g[copy], Len(g)))
        h2 == IF ~multi
              THEN IF matches # {}
                   THEN IF existingSort.direction = "asc" THEN one("desc")
                        ELSE Append(h1, << >>)
                   ELSE one("asc")
              ELSE IF matches # {}
                   THEN IF existingSort.direction = "asc" THEN flipped
                        ELSE Append(h1, SelectSeq(arr, LAMBDA r : h1[r].columnId # columnId))
                   ELSE pushed
        newSort == IF multi /\ matches = {} THEN copy ELSE Len(h2)
        h3 == Append(h2, [prev EXCEPT !.sort = newSort])
        h4 == sortRowsHeap(h3, Len(h3))
    IN Append(h4, [prev EXCEPT !.sort = newSort, !.rowOrder = Len(h4)])

resizeColumnHeap(h, top, columnId, width) ==
    LET prev == h[top]
        h1 == Append(h, MapSet(h[prev.columnWidths], columnId, Max(MinColumnWidth, width)))
        h2 == Append(h1, [prev EXCEPT !.columnWidths = Len(h1)])
    IN Append(h2, h2[Len(h2)])

toggleColumnVisibilityHeap(h, top, columnId) ==
    LET prev == h[top]
        old == h[prev.columnVisibility]
        h1 == Append(h, MapSet(old, columnId, ~(columnId \in DOMAIN old /\ old[columnId])))
    IN Append(h1, [prev EXCEPT !.columnVisibility = Len(h1)])

moveColumnHeap(h, top, dragColumnId, hoverColumnId) ==
    LET prev == h[top]
        h1 == Append(h, h[prev.columnOrder])
        newOrder == Len(h1)
        dragIndex == IndexOf(h1[newOrder], dragColumnId) - 1
        hoverIndex == IndexOf(h1[newOrder], hoverColumnId) - 1
    IN IF dragIndex = 0 - 1 \/ hoverIndex = 0 - 1 \/ dragIndex = hoverIndex
       THEN Append(h1, prev)
       ELSE LET h2 == HeapWrite(h1, newOrder, RemoveAt(h1[newOrder], dragIndex + 1))
                h3 == HeapWrite(h2, newOrder, InsertAt(h2[newOrder], hoverIndex, dragColumnId))
            IN Append(h3, [prev EXCEPT !.columnOrder = newOrder])

startEditHeap(h, top, rowId, colId, value) ==
    LET h1 == Append(h, startEditUpdate(rowId, colId, value).editingCell[1])
    IN Append(h1, [h[top] EXCEPT !.editingCell = Len(h1)])

\* the three updaters of the shape prev.editingCell ? { editingCell: {...} } : {}
editHeap(h, top, changed) ==
    IF h[top].editingCell # 0
    THEN LET h1 == Append(h, Spread(h[h[top].editingCell], changed))
         IN Append(h1, [h[top] EXCEPT !.editingCell = Len(h1)])
    ELSE Append(h, h[top])

updateEditValueHeap(h, top, value) == editHeap(h, top, [value |-> value, error |-> << >>])

cancelEditHeap(h, top) == Append(h, [h[top] EXCEPT !.editingCell = 0])

setEditSavingHeap(h, top, isSaving) == editHeap(h, top, [isSaving |-> isSaving])

setEditErrorHeap(h, top, error) == editHeap(h, top, [error |-> error, isSaving |-> FALSE])

setDataHeap(h, top, rows) ==
    LET prev == h[top]
        h1 == h \o rows
        ids == {getRowId(rows[i]) : i \in DOMAIN rows}
        last(id) == CHOOSE i \in DOMAIN rows :
                        /\ getRowId(rows[i]) = id
                        /\ \A j \in DOMAIN rows : getRowId(rows[j]) = id => j <= i
        h2 == Append(h1, [id \in ids |-> Len(h) + last(id)])
        h3 == Append(h2, [i \in DOMAIN rows |-> getRowId(rows[i])])
        h4 == Append(h3, [prev EXCEPT !.rowMap = Len(h2), !.rowOrder = Len(h3)])
        nextState == Len(h4)
        h5 == IF Len(h4[prev.sort]) > 0
              THEN LET g == sortRowsHeap(h4, nextState)
                   IN HeapWrite(g, nextState, [g[nextState] EXCEPT !.rowOrder = Len(g)])
              ELSE h4
    IN Append(h5, h5[nextState])

updateRowHeap(h, top, rowId, updates) ==
    LET prev == h[top]
    IN IF rowId \notin DOMAIN h[prev.rowMap] THEN Append(h, prev)
       ELSE LET h1 == Append(h, Spread(h[h[prev.rowMap][rowId]], updates))
                newRow == Len(h1)
                h2 == Append(h1, h1[prev.rowMap])
                newRowMap == Len(h2)
                h3 == HeapWrite(h2, newRowMap, MapSet(h2[newRowMap], rowId, newRow))
                h4 == Append(h3, [prev EXCEPT !.rowMap = newRowMap])
            IN Append(h4, h4[Len(h4)])

\* commitEdit that sets the new row in prev.rowMap instead of in a copy of it
commitEditHeapInPlace(h, top) ==
    LET prev == h[top]
    IN IF prev.editingCell = 0 THEN Append(h, prev)
       ELSE LET e == h[prev.editingCell]
            IN IF e.rowId \notin DOMAIN h[prev.rowMap]
               THEN Append(h, [prev EXCEPT !.editingCell = 0])
               ELSE LET h1 == Append(h, Spread(h[h[prev.rowMap][e.rowId]], (e.colId :> e.value)))
                        h3 == HeapWrite(h1, prev.rowMap, MapSet(h1[prev.rowMap], e.rowId, Len(h1)))
                    IN Append(h3, [prev EXCEPT !.editingCell = 0])

commitEditHeap(h, top) ==
    LET prev == h[top]
    IN IF prev.editingCell = 0 THEN Append(h, prev)
       ELSE LET e == h[prev.editingCell]
            IN IF e.rowId \notin DOMAIN h[prev.rowMap]
               THEN LET h1 == Append(h, [prev EXCEPT !.editingCell = 0])
                    IN Append(h1, h1[Len(h1)])
               ELSE LET h1 == Append(h, Spread(h[h[prev.rowMap][e.rowId]], (e.colId :> e.value)))
                        newRow == Len(h1)
                        h2 == Append(h1, h1[prev.rowMap])
                        newRowMap == Len(h2)
                        h3 == HeapWrite(h2, newRowMap, MapSet(h2[newRowMap], e.rowId, newRow))
                        h4 == Append(h3, [prev EXCEPT !.rowMap = newRowMap, !.editingCell = 0])
                    IN Append(h4, h4[Len(h4)])

(***************************************************************************)
(* Inputs                                                                  *)
(***************************************************************************)
Collections == UNION {[1..n -> Rows] : n \in 0..MaxRows}

UniqueCollections ==
    {rows \in Collections : \A i, j \in DOMAIN rows : getRowId(rows[i]) = getRowId(rows[j]) => i = j}

\* Partial<T> arguments of updateRow: nothing, or a new value for column "a"
Updates == {<<>>} \cup [{"a"} -> Vals]

\* the columns edited in the explored runs
EditCols == {"a"}

\* the column state of new GridStore(initialState): the defaults derived from
\* initialState.columns, each replaced by the field of initialState when
\* initialState has that field
ConstructedFrom(initialState) ==
    LET columns == IF "columns" \in DOMAIN initialState THEN initialState.columns ELSE << >>
        ids == {columns[i].id : i \in DOMAIN columns}
        widths == [c \in ids |->
                      columns[CHOOSE i \in DOMAIN columns :
                                 /\ columns[i].id = c
                                 /\ \A j \in DOMAIN columns : columns[j].id = c => j <= i].width]
        order == [i \in DOMAIN columns |-> columns[i].id]
        visibility == [c \in ids |-> TRUE]
    IN /\ columnOrder = IF "columnOrder" \in DOMAIN initialState
                         THEN initialState.columnOrder ELSE order
       /\ columnWidths = IF "columnWidths" \in DOMAIN initialState
                          THEN initialState.columnWidths ELSE widths
       /\ columnVisibility = IF "columnVisibility" \in DOMAIN initialState
                              THEN initialState.columnVisibility ELSE visibility

\* the column state the constructor derives from initialState.columns
ColumnInit(columns) == ConstructedFrom([columns |-> columns])

\* everything of the initial state but the column state
RestInit ==
    /\ rowMap = <<>>
    /\ rowOrder = <<>>
    /\ sort = <<>>
    /\ editingCell = <<>>
    /\ focusedCell = <<>>
    /\ listeners = <<>>
    /\ notifying = FALSE
    /\ cursor = 0
    /\ pass = IdlePass
    /\ pending = <<>>
    /\ outcome = <<>>
    /\ loaded = <<>>
    /\ heap = InitialHeap
    /\ stateRef = Len(InitialHeap)
    /\ issued = <<[ref |-> Len(InitialHeap), value |-> Deep(InitialHeap, Len(InitialHeap))]>>
    /\ toggled = <<>>
    /\ lastCall = <<>>

StoreInit == ColumnInit(ColumnDefs) /\ RestInit

\* no DataGrid is mounted
GridIdle ==
    /\ data = <<>>
    /\ gridSort = <<>>
    /\ cursorPosition = <<>>

VirtIdle ==
    /\ options = [count |-> 0, scrollOffset |-> 0, containerSize |-> 0,
                  itemSize |-> 1, overscan |-> 0]
    /\ range = EmptyRange
    /\ fresh = FALSE
    /\ layoutOptions = <<>>
    /\ layout = <<>>
    /\ GridIdle

(***************************************************************************)
(* Store specification: data, sorting and the editing state                *)
(***************************************************************************)
Init == StoreInit /\ VirtIdle

\* data sets of the store runs: any rows in any order, one value in column "a"
\* (updateRow and commitEdit then make the values differ)
UniformCollections ==
    {rows \in UniqueCollections : \A i, j \in DOMAIN rows : rows[i].a = rows[j].a}

SetData == \E rows \in UniformCollections : setData(rows)

ToggleSort == \E c \in Cols, multi \in BOOLEAN : toggleSort(c, multi)

UpdateRow == \E rowId \in RowIds, updates \in Updates : updateRow(rowId, updates)

StartEdit ==
    \E rowId \in RowIds, colId \in EditCols, value \in Vals :
        startEdit(rowId, colId, value)

CommitEdit == commitEdit

CancelEdit == cancelEdit

Next ==
    /\ \/ SetData
       \/ ToggleSort
       \/ UpdateRow
       \/ StartEdit
       \/ CommitEdit
       \/ CancelEdit
    /\ UNCHANGED <<virtVars, commitVars, heapVars, toggled, lastCall>>

Spec == Init /\ [][Next]_vars

(***************************************************************************)
(* Loading specification: data sets are loaded under every sort sequence   *)
(***************************************************************************)
LoadData == \E rows \in UniqueCollections : setData(rows) /\ loaded' = <<rows>>

LoadToggleSort == ToggleSort /\ loaded' = <<>>

NextLoad ==
    /\ \/ LoadData
       \/ LoadToggleSort
    /\ UNCHANGED <<virtVars, pending, outcome, heapVars, toggled, lastCall>>

SpecLoad == Init /\ [][NextLoad]_vars

(***************************************************************************)
(* Duplicate-id specification: the data sets loaded may hold several rows  *)
(* with the same id.                                                       *)
(***************************************************************************)
\* rows that differ in column "a", so that rows of the same id can be told apart
DupRows == {[id |-> id, a |-> v, b |-> ColB(id)] : id \in RowIds, v \in {1, 2}}

DupCollections == UNION {[1..n -> DupRows] : n \in 0..MaxRows}

DupSetData == \E rows \in DupCollections : setData(rows) /\ loaded' = <<rows>>

DupToggleSort == toggleSort("a", FALSE) /\ loaded' = <<>>

NextDup ==
    /\ \/ DupSetData
       \/ DupToggleSort
    /\ UNCHANGED <<virtVars, pending, outcome, heapVars, toggled, lastCall>>

SpecDup == Init /\ [][NextDup]_vars

(***************************************************************************)
(* Sorting specification: data sets are loaded and the sort is toggled in  *)
(* both modes; the last toggleSort call is remembered with the state it    *)
(* was made in and with the number of single-mode calls on its column in   *)
(* a row since the column had no descriptor.                               *)
(***************************************************************************)
HasDescriptor(sortSeq, columnId) == \E i \in DOMAIN sortSeq : sortSeq[i].columnId = columnId

Streak(columnId, multi) ==
    IF multi THEN 0
    ELSE IF ~HasDescriptor(sort, columnId) THEN 1
    ELSE IF /\ toggled # <<>>
            /\ toggled[1].columnId = columnId
            /\ toggled[1].streak \in {1, 2}
         THEN toggled[1].streak + 1
         ELSE 0

SortSetData == \E rows \in UniqueCollections : setData(rows) /\ toggled' = <<>>

SortToggleSort ==
    \E c \in Cols, multi \in BOOLEAN :
        /\ toggleSort(c, multi)
        /\ toggled' = <<[columnId |-> c, multi |-> multi, prev |-> getState,
                         streak |-> Streak(c, multi)]>>

NextSort ==
    /\ \/ SortSetData
       \/ SortToggleSort
    /\ UNCHANGED <<virtVars, commitVars, heapVars, lastCall>>

SpecSort == Init /\ [][NextSort]_vars

(***************************************************************************)
(* Editing-state specification: the store's editing operations in any      *)
(* order, on loaded and on missing rows; the last call is remembered with   *)
(* its arguments and the state it was made in.                              *)
(***************************************************************************)
Call(op, args) == lastCall' = <<[op |-> op, args |-> args, prev |-> getState]>>

\* error argument of setEditError: null or a message
Errors == {<<>>, <<"bad">>}

\* data sets of the editing runs: no rows, or every row with value 1
CellCollections == {<<>>, [i \in 1..MaxRows |-> [id |-> i, a |-> 1, b |-> ColB(i)]]}

CellSetData == \E rows \in CellCollections : setData(rows) /\ Call("setData", <<rows>>)

CellStartEdit ==
    \E rowId \in RowIds, colId \in EditCols, value \in Vals :
        startEdit(rowId, colId, value) /\ Call("startEdit", <<rowId, colId, value>>)

CellUpdateEditValue ==
    \E value \in Vals : updateEditValue(value) /\ Call("updateEditValue", <<value>>)

CellSetEditSaving ==
    \E isSaving \in BOOLEAN : setEditSaving(isSaving) /\ Call("setEditSaving", <<isSaving>>)

CellSetEditError ==
    \E error \in Errors : setEditError(error) /\ Call("setEditError", <<error>>)

CellCommitEdit == commitEdit /\ Call("commitEdit", <<>>)

CellCancelEdit == cancelEdit /\ Call("cancelEdit", <<>>)

NextCell ==
    /\ \/ CellSetData
       \/ CellStartEdit
       \/ CellUpdateEditValue
       \/ CellSetEditSaving
       \/ CellSetEditError
       \/ CellCommitEdit
       \/ CellCancelEdit
    /\ UNCHANGED <<virtVars, commitVars, heapVars, toggled>>

SpecCell == Init /\ [][NextCell]_vars

(***************************************************************************)
(* Row-update specification: rows are loaded, sorted, edited and updated   *)
(* one at a time, also rows that are not loaded.                           *)
(***************************************************************************)
RowSetData == \E rows \in CellCollections : setData(rows) /\ Call("setData", <<rows>>)

RowToggleSort == toggleSort("a", FALSE) /\ Call("toggleSort", <<"a", FALSE>>)

RowStartEdit == startEdit(1, "a", 1) /\ Call("startEdit", <<1, "a", 1>>)

RowUpdateRow ==
    \E rowId \in RowIds, updates \in Updates :
        updateRow(rowId, updates) /\ Call("updateRow", <<rowId, updates>>)

NextRow ==
    /\ \/ RowSetData
       \/ RowToggleSort
       \/ RowStartEdit
       \/ RowUpdateRow
    /\ UNCHANGED <<virtVars, commitVars, heapVars, toggled>>

SpecRow == Init /\ [][NextRow]_vars

(***************************************************************************)
(* Column specification: the stores explored are constructed from column   *)
(* definitions, also narrow ones, or from a column order and widths alone; *)
(* columns are resized, hidden, shown and moved, and the operations are    *)
(* also called with ids of columns and rows that do not exist.             *)
(***************************************************************************)
ColumnIds == {ColumnDefs[i].id : i \in DOMAIN ColumnDefs}

\* an id that is no column of the grid
UnknownColumn == "z"

\* a column definition narrower than the minimum width
NarrowWidth == 40

NarrowDefs == [ColumnDefs EXCEPT ![1].width = NarrowWidth]

\* the constructor arguments explored
InitialStates ==
    { [columns |-> ColumnDefs],
      [columns |-> NarrowDefs],
      [columnOrder |-> [i \in DOMAIN ColumnDefs |-> ColumnDefs[i].id],
       columnWidths |-> [c \in ColumnIds |-> ColumnWidth]] }

InitCols ==
    /\ \E initialState \in InitialStates : ConstructedFrom(initialState)
    /\ RestInit
    /\ VirtIdle

\* the widths passed to resizeColumn: negative, just below and just above the
\* minimum
ResizeWidths == {0 - MinColumnWidth, MinColumnWidth - 1, MinColumnWidth + 1}

ColsResizeColumn ==
    \E columnId \in {"a", UnknownColumn}, width \in ResizeWidths :
        resizeColumn(columnId, width) /\ Call("resizeColumn", <<columnId, width>>)

ColsToggleColumnVisibility ==
    \E columnId \in ColumnIds \cup {UnknownColumn} :
        toggleColumnVisibility(columnId) /\ Call("toggleColumnVisibility", <<columnId>>)

ColsMoveColumn ==
    \E ids \in {<<UnknownColumn, "a">>, <<"a", UnknownColumn>>} :
        moveColumn(ids[1], ids[2]) /\ Call("moveColumn", ids)

ColsToggleSort ==
    toggleSort(UnknownColumn, FALSE) /\ Call("toggleSort", <<UnknownColumn, FALSE>>)

ColsStartEdit == startEdit(1, "a", 1) /\ Call("startEdit", <<1, "a", 1>>)

NextCols ==
    /\ \/ ColsResizeColumn
       \/ ColsToggleColumnVisibility
       \/ ColsMoveColumn
       \/ ColsToggleSort
       \/ ColsStartEdit
    /\ UNCHANGED <<virtVars, commitVars, heapVars, toggled>>

SpecCols == InitCols /\ [][NextCols]_vars

(***************************************************************************)
(* CellEditor.commit with onCellEdit configured: optimistic commit, then   *)
(* the external validation succeeds or fails.                              *)
(***************************************************************************)
\* e.message of the rejection
Messages == {"", "bad"}

\* const oldValue = row ? row[colId] : undefined
oldValueOf(state, rowId, colId) ==
    IF rowId \in DOMAIN state.rowMap THEN state.rowMap[rowId][colId] ELSE Null

\* The variables captured by commit before it awaits onCellEdit.  existed,
\* before and undisturbed are bookkeeping: whether the row existed, the value
\* its field had before commitEdit, and whether no other transition happened
\* since.
commitClosure(state) ==
    LET e == state.editingCell[1]
    IN [rowId |-> e.rowId, colId |-> e.colId, value |-> e.value,
        oldValue |-> oldValueOf(state, e.rowId, e.colId),
        existed |-> e.rowId \in DOMAIN rowMap,
        before |-> IF e.rowId \in DOMAIN rowMap THEN rowMap[e.rowId][e.colId] ELSE Null,
        undisturbed |-> TRUE]

Disturbed(seq) == [i \in DOMAIN seq |-> [seq[i] EXCEPT !.undisturbed = FALSE]]

\* commit(): capture, store.commitEdit(), call onCellEdit
commit ==
    /\ editingCell # <<>>
    /\ Len(pending) < MaxPending
    /\ commitEdit
    /\ pending' = Append(Disturbed(pending), commitClosure(getState))
    /\ outcome' = <<>>

\* onCellEdit resolved: nothing to do
validationSucceeded(i) ==
    /\ ~notifying
    /\ i \in DOMAIN pending
    /\ pending' = RemoveAt(pending, i)
    /\ outcome' = <<>>
    /\ UNCHANGED <<stateVars, notifyVars>>

\* the catch block without the updateRow call
rollbackKeepsValue(prev, p, message) ==
    LET s2 == Spread(prev, startEditUpdate(p.rowId, p.colId, p.value))
        error == IF message = "" THEN "Validation failed" ELSE message
    IN Spread(s2, setEditErrorUpdate(s2, <<error>>))

\* the state after the three store calls of the catch block
rollback(prev, p, message) ==
    LET s1 == Spread(prev, updateRowUpdate(prev, p.rowId, (p.colId :> p.oldValue)))
        s2 == Spread(s1, startEditUpdate(p.rowId, p.colId, p.value))
        error == IF message = "" THEN "Validation failed" ELSE message
    IN Spread(s2, setEditErrorUpdate(s2, <<error>>))

\* onCellEdit rejected: updateRow, startEdit, setEditError
validationFailed(i, message) ==
    /\ i \in DOMAIN pending
    /\ setState(rollback(getState, pending[i], message))
    /\ pending' = Disturbed(RemoveAt(pending, i))
    /\ outcome' = <<pending[i]>>

\* a store transition made by somebody else while validations are pending
Other(A) ==
    /\ A
    /\ pending' = Disturbed(pending)
    /\ outcome' = <<>>

\* data sets loaded in the editing runs: nothing, or every row with one value
EditCollections ==
    {<<>>} \cup {[i \in 1..MaxRows |-> [id |-> i, a |-> v, b |-> ColB(i)]] : v \in Vals}

EditSetData == \E rows \in EditCollections : Other(setData(rows))

EditUpdateRow == \E rowId \in RowIds, v \in Vals : Other(updateRow(rowId, ("a" :> v)))

EditStartEdit ==
    \E rowId \in RowIds, colId \in EditCols, value \in Vals :
        Other(startEdit(rowId, colId, value))

EditUpdateValue == \E value \in Vals : Other(updateEditValue(value))

EditCancel == Other(cancelEdit)

Commit == commit

ValidationSucceeded == \E i \in 1..MaxPending : validationSucceeded(i)

ValidationFailed == \E i \in 1..MaxPending, m \in Messages : validationFailed(i, m)

NextEdit ==
    /\ \/ EditSetData
       \/ EditUpdateRow
       \/ EditStartEdit
       \/ EditUpdateValue
       \/ EditCancel
       \/ Commit
       \/ ValidationSucceeded
       \/ ValidationFailed
    /\ UNCHANGED <<virtVars, loaded, heapVars, toggled, lastCall>>

SpecEdit == Init /\ [][NextEdit]_vars

(***************************************************************************)
(* Overlapping commits: a second commit() starts while the validation of   *)
(* an earlier one is still awaited.                                        *)
(***************************************************************************)
Most(S) == CHOOSE x \in S : \A y \in S : y <= x

SameCell(p, q) == p.rowId = q.rowId /\ p.colId = q.colId

\* The closure of commit with the bookkeeping of overlapping attempts on one
\* cell: first is the field's value before the earliest of them, attempts
\* counts them, and rejected tells that none of them has been accepted so far.
attemptClosure(state) ==
    LET p == commitClosure(state)
        same == {i \in DOMAIN pending : SameCell(pending[i], p)}
    IN Spread(p, [first |-> IF same = {} THEN p.oldValue
                            ELSE pending[CHOOSE i \in same : TRUE].first,
                  attempts |-> IF same = {} THEN 1
                               ELSE 1 + Most({pending[i].attempts : i \in same}),
                  rejected |-> \A i \in same : pending[i].rejected])

\* the validation just completed, with the editing cell it found
Completed(op, p) ==
    lastCall' = <<[op |-> op, args |-> <<p>>, prev |-> [editingCell |-> editingCell]]>>

\* commit(): capture, store.commitEdit(), call onCellEdit
OverlapCommit ==
    /\ editingCell # <<>>
    /\ Len(pending) < MaxOverlap
    /\ attemptClosure(getState).attempts <= MaxOverlap
    /\ commitEdit
    /\ pending' = Append(pending, attemptClosure(getState))
    /\ outcome' = <<>>
    /\ lastCall' = <<>>

\* await onCellEdit(...) resolved: the try block ends
OverlapSucceeded ==
    \E i \in DOMAIN pending :
        /\ ~notifying
        /\ pending' = [k \in DOMAIN RemoveAt(pending, i) |->
                         LET q == RemoveAt(pending, i)[k]
                         IN IF SameCell(q, pending[i]) THEN [q EXCEPT !.rejected = FALSE] ELSE q]
        /\ outcome' = <<>>
        /\ Completed("validationSucceeded", pending[i])
        /\ UNCHANGED <<stateVars, notifyVars>>

\* await onCellEdit(...) rejected: the catch block runs
OverlapFailed ==
    \E i \in DOMAIN pending, message \in {"bad"} :
        /\ setState(rollback(getState, pending[i], message))
        /\ pending' = [k \in DOMAIN RemoveAt(pending, i) |->
                         LET q == RemoveAt(pending, i)[k]
                         IN IF SameCell(q, pending[i])
                            THEN [q EXCEPT !.attempts = Max(q.attempts, pending[i].attempts)]
                            ELSE q]
        /\ outcome' = <<pending[i]>>
        /\ Completed("validationFailed", pending[i])

\* the grid is loaded while no validation is awaited
OverlapSetData ==
    /\ pending = <<>>
    /\ \E rows \in CellCollections : setData(rows)
    /\ lastCall' = <<>>
    /\ UNCHANGED <<pending, outcome>>

\* the values typed into the editor: none of them is a loaded value
Typed == {0, MaxVal}

OverlapStartEdit ==
    \E rowId \in RowIds, colId \in EditCols, value \in Typed :
        /\ startEdit(rowId, colId, value)
        /\ lastCall' = <<>>
        /\ UNCHANGED <<pending, outcome>>

NextOverlap ==
    /\ \/ OverlapSetData
       \/ OverlapStartEdit
       \/ OverlapCommit
       \/ OverlapSucceeded
       \/ OverlapFailed
    /\ UNCHANGED <<virtVars, loaded, heapVars, toggled>>

SpecOverlap == Init /\ [][NextOverlap]_vars

(***************************************************************************)
(* Notification specification: listeners come and go, also while they are  *)
(* being notified, and a few transitions of every kind are made.           *)
(***************************************************************************)
NotifyCollections == {<<>>, [i \in 1..MaxRows |-> [id |-> i, a |-> 1, b |-> ColB(i)]]}

Subscribe == \E l \in Listeners : subscribe(l)

Unsubscribe == \E l \in Listeners : unsubscribe(l)

Notify == \E effect \in ListenerEffects : CallListener(effect)

NotifySetData == \E rows \in NotifyCollections : setData(rows)

NotifyUpdateRow == updateRow(MaxRows, ("a" :> 1))

NotifyToggleSort == toggleSort("a", FALSE)

NotifyStartEdit == startEdit(1, "a", 1)

NotifyUpdateEditValue == updateEditValue(MaxVal)

NotifyCommitEdit == commitEdit

NotifyCancelEdit == cancelEdit

NextNotify ==
    /\ \/ Subscribe /\ UNCHANGED stateVars
       \/ Unsubscribe /\ UNCHANGED stateVars
       \/ Notify
       \/ NotifySetData
       \/ NotifyUpdateRow
       \/ NotifyToggleSort
       \/ NotifyStartEdit
       \/ NotifyUpdateEditValue
       \/ NotifyCommitEdit
       \/ NotifyCancelEdit
    /\ UNCHANGED <<virtVars, commitVars, heapVars, toggled, lastCall>>

SpecNotify == Init /\ [][NextNotify]_vars

(***************************************************************************)
(* Snapshot specification: every handler runs on the values and on the     *)
(* heap, and every snapshot that was the store's state is remembered with  *)
(* the contents it had when it was handed out.                             *)
(***************************************************************************)
\* getState() after the transition that left the heap h
Issue(h) ==
    /\ Len(issued) < MaxSnapshots
    /\ heap' = h
    /\ stateRef' = Len(h)
    /\ issued' = Append(issued, [ref |-> Len(h), value |-> Deep(h, Len(h))])

SnapCollections == {[i \in 1..MaxRows |-> [id |-> i, a |-> 1, b |-> ColB(i)]]}

SnapSetData == \E rows \in SnapCollections : setData(rows) /\ Issue(setDataHeap(heap, stateRef, rows))

SnapToggleSort ==
    \E c \in Cols, multi \in BOOLEAN :
        toggleSort(c, multi) /\ Issue(toggleSortHeap(heap, stateRef, c, multi))

SnapUpdateRow ==
    \E rowId \in {MaxRows, MaxRows + 1} :
        /\ updateRow(rowId, ("a" :> Null))
        /\ Issue(updateRowHeap(heap, stateRef, rowId, ("a" :> Null)))

SnapStartEdit == startEdit(1, "a", MaxVal) /\ Issue(startEditHeap(heap, stateRef, 1, "a", MaxVal))

SnapUpdateEditValue ==
    updateEditValue(1) /\ Issue(updateEditValueHeap(heap, stateRef, 1))

SnapSetEditSaving ==
    setEditSaving(TRUE) /\ Issue(setEditSavingHeap(heap, stateRef, TRUE))

SnapSetEditError ==
    setEditError(<<"bad">>) /\ Issue(setEditErrorHeap(heap, stateRef, <<"bad">>))

SnapCommitEdit == commitEdit /\ Issue(commitEditHeap(heap, stateRef))

SnapCancelEdit == cancelEdit /\ Issue(cancelEditHeap(heap, stateRef))

SnapResizeColumn ==
    \E w \in {MinColumnWidth - 1, ColumnWidth + 1} :
        resizeColumn("a", w) /\ Issue(resizeColumnHeap(heap, stateRef, "a", w))

SnapToggleColumnVisibility ==
    toggleColumnVisibility("a") /\ Issue(toggleColumnVisibilityHeap(heap, stateRef, "a"))

SnapMoveColumn ==
    \E drag \in Cols, hover \in Cols :
        moveColumn(drag, hover) /\ Issue(moveColumnHeap(heap, stateRef, drag, hover))

NextSnap ==
    /\ \/ SnapSetData
       \/ SnapToggleSort
       \/ SnapUpdateRow
       \/ SnapStartEdit
       \/ SnapUpdateEditValue
       \/ SnapSetEditSaving
       \/ SnapSetEditError
       \/ SnapCommitEdit
       \/ SnapCancelEdit
       \/ SnapResizeColumn
       \/ SnapToggleColumnVisibility
       \/ SnapMoveColumn
    /\ UNCHANGED <<virtVars, commitVars, toggled, lastCall>>

SpecSnap == Init /\ [][NextSnap]_vars

(***************************************************************************)
(* Column-order specification: columns are moved, also with ids that are   *)
(* no columns, and the object graph is tracked.                            *)
(***************************************************************************)
MoveMoveColumn ==
    \E drag \in ColumnIds \cup {UnknownColumn}, hover \in ColumnIds \cup {UnknownColumn} :
        /\ moveColumn(drag, hover)
        /\ Issue(moveColumnHeap(heap, stateRef, drag, hover))
        /\ Call("moveColumn", <<drag, hover>>)

NextMove ==
    /\ MoveMoveColumn
    /\ UNCHANGED <<virtVars, commitVars, toggled>>

SpecMove == Init /\ [][NextMove]_vars

(***************************************************************************)
(* ColumnVirtualizer.calculateLayout                                       *)
(***************************************************************************)
\* columnWidths[id] || 100
DefaultColumnWidth == 100

\* overscan = 200
DefaultOverscan == 200

RECURSIVE Sum(_)
Sum(seq) == IF Len(seq) = 0 THEN 0 ELSE seq[1] + Sum(SubSeq(seq, 2, Len(seq)))

\* columnVisibility[id] !== false: what the layout engine takes as visible
Visible(visibility, id) == id \notin DOMAIN visibility \/ visibility[id] # FALSE

\* columnVisibility ? columnVisibility[id] !== false : true
isVisible(o, id) ==
    IF "columnVisibility" \in DOMAIN o THEN Visible(o.columnVisibility, id) ELSE TRUE

leftIds(o) == SelectSeq(o.pinnedColumns.left, LAMBDA id : isVisible(o, id))

rightIds(o) == SelectSeq(o.pinnedColumns.right, LAMBDA id : isVisible(o, id))

scrollableIds(o) ==
    SelectSeq(o.columnOrder,
              LAMBDA id : /\ id \notin Range(o.pinnedColumns.left)
                          /\ id \notin Range(o.pinnedColumns.right)
                          /\ isVisible(o, id))

\* a visual order that keeps the pinned columns where columnOrder has them
visualOrderAsOrdered(o) ==
    SelectSeq(o.columnOrder, LAMBDA id : id \in Range(leftIds(o) \o scrollableIds(o) \o rightIds(o)))

visualOrder(o) == leftIds(o) \o scrollableIds(o) \o rightIds(o)

\* columnWidths[id] || 100: a missing entry and an entry of 0 both give 100
width(o, id) ==
    IF id \in DOMAIN o.columnWidths /\ o.columnWidths[id] # 0 THEN o.columnWidths[id]
    ELSE DefaultColumnWidth

\* rightStickyOffsets.get(id) || 0: the loop runs from the last right-pinned
\* column to the first, so the entry of an id is the one set at its first index
rightStickyOffsets(o, id) ==
    LET ids == rightIds(o)
        at == {i \in DOMAIN ids : ids[i] = id}
    IN IF at = {} THEN 0
       ELSE LET i == CHOOSE k \in at : \A j \in at : k <= j
            IN Sum([j \in 1..(Len(ids) - i) |-> width(o, ids[i + j])])

visibleStart(o) ==
    o.scrollLeft - (IF "overscan" \in DOMAIN o THEN o.overscan ELSE DefaultOverscan)

visibleEnd(o) ==
    o.scrollLeft + o.viewportWidth
        + (IF "overscan" \in DOMAIN o THEN o.overscan ELSE DefaultOverscan)

\* isPinned is "left", "right" or "none" (false in the source)
calculateLayout(o) ==
    LET order == visualOrder(o)
        widths == [k \in DOMAIN order |-> width(o, order[k])]
        \* currentOffset when the loop reaches position k
        currentOffset(k) == Sum(SubSeq(widths, 1, k - 1))
        isPinnedLeft(k) == order[k] \in Range(leftIds(o))
        isPinnedRight(k) == order[k] \in Range(rightIds(o))
        \* leftStickyAccumulator when the loop reaches position k
        leftStickyAccumulator(k) ==
            Sum([j \in 1..(k - 1) |-> IF isPinnedLeft(j) THEN widths[j] ELSE 0])
        start(k) == currentOffset(k)
        end(k) == start(k) + widths[k]
        shouldRender(k) ==
            IF isPinnedLeft(k) \/ isPinnedRight(k) THEN TRUE
            ELSE end(k) >= visibleStart(o) /\ start(k) <= visibleEnd(o)
        column(k) ==
            [index |-> k - 1,
             id |-> order[k],
             start |-> start(k),
             size |-> widths[k],
             end |-> end(k),
             isPinned |-> IF isPinnedLeft(k) THEN "left"
                          ELSE IF isPinnedRight(k) THEN "right" ELSE "none",
             stickyOffset |-> IF isPinnedLeft(k) THEN leftStickyAccumulator(k)
                              ELSE IF isPinnedRight(k) THEN rightStickyOffsets(o, order[k])
                              ELSE 0]
    IN [virtualColumns |->
            SelectSeq([k \in DOMAIN order |-> column(k)],
                      LAMBDA c : shouldRender(c.index + 1)),
        totalWidth |-> Sum(widths)]

(***************************************************************************)
(* Layout specification: calculateLayout is called once with options drawn *)
(* from the explored set: disjoint pinned lists over the columns, widths   *)
(* present (0 included) or missing, columns hidden or not.                 *)
(***************************************************************************)
\* the sequences without repetition over a set
Arrangements(S) ==
    {seq \in UNION {[1..n -> S] : n \in 0..Cardinality(S)} :
        \A i, j \in DOMAIN seq : seq[i] = seq[j] => i = j}

Pinnings ==
    {[left |-> l, right |-> r] : l \in Arrangements(ColumnIds), r \in Arrangements(ColumnIds)}

\* the required fields of the options
RequiredOptions ==
    [columnOrder : {[i \in DOMAIN ColumnDefs |-> ColumnDefs[i].id]},
     columnWidths : UNION {[D -> 0..MaxColumnWidth] : D \in SUBSET ColumnIds},
     pinnedColumns : {p \in Pinnings :
                         /\ Range(p.left) \cap Range(p.right) = {}
                         /\ Len(p.left) + Len(p.right) <= MaxPinned},
     scrollLeft : 0..MaxScrollLeft,
     viewportWidth : 0..MaxViewportWidth]

\* columnVisibility: not given, empty, or an entry for every column
VisibilityOptions ==
    {<< >>} \cup
    {[columnVisibility |-> v] :
        v \in {<< >>} \cup
              {[c \in ColumnIds |-> c \notin H] :
                  H \in {G \in SUBSET ColumnIds : Cardinality(G) <= MaxHidden}}}

\* overscan: not given, or a number of pixels
OverscanOptions == {<< >>} \cup {[overscan |-> n] : n \in 0..MaxPixelOverscan}

InitLayout ==
    /\ StoreInit
    /\ options = [count |-> 0, scrollOffset |-> 0, containerSize |-> 0,
                  itemSize |-> 1, overscan |-> 0]
    /\ range = EmptyRange
    /\ fresh = FALSE
    /\ \E b \in RequiredOptions, v \in VisibilityOptions, ov \in OverscanOptions :
          layoutOptions = Spread(Spread(b, v), ov)
    /\ layout = <<>>
    /\ GridIdle

CalculateLayout ==
    /\ layout = <<>>
    /\ layout' = <<calculateLayout(layoutOptions)>>
    /\ UNCHANGED layoutOptions

NextLayout ==
    /\ CalculateLayout
    /\ UNCHANGED <<options, range, fresh, gridVars, stateVars, notifyVars, commitVars,
                   heapVars, toggled, lastCall>>

SpecLayout == InitLayout /\ [][NextLayout]_vars

(***************************************************************************)
(* DataGrid component: sort state, sorted data and cursor                  *)
(***************************************************************************)
\* the columns prop
columns == ColumnDefs

\* body of the for loop of the comparator of sortedData; the rows explored
\* hold numbers, and a column that neither row has compares equal
RECURSIVE gridCompare(_, _, _)
gridCompare(a, b, descriptors) ==
    IF descriptors = <<>> THEN 0
    ELSE LET columnId == Head(descriptors).columnId
             direction == Head(descriptors).direction
         IN IF columnId \notin DOMAIN a \/ a[columnId] = b[columnId]
            THEN gridCompare(a, b, Tail(descriptors))
            ELSE IF direction = "asc" THEN a[columnId] - b[columnId]
                 ELSE b[columnId] - a[columnId]

\* [...data].sort(comparator): the sort is stable
sortedData(rows, sortSeq) ==
    IF Len(sortSeq) = 0 THEN rows
    ELSE LET F[n \in 0..Len(rows)] ==
                 IF n = 0 THEN <<>>
                 ELSE LET sorted == F[n - 1]
                          x == rows[n]
                          after == {j \in DOMAIN sorted : gridCompare(sorted[j], x, sortSeq) > 0}
                          k == IF after = {} THEN Len(sorted) + 1
                               ELSE CHOOSE j \in after : \A m \in after : j <= m
                      IN SubSeq(sorted, 1, k - 1) \o <<x>> \o SubSeq(sorted, k, Len(sorted))
         IN F[Len(rows)]

\* findIndex, counted from 1; 0 when nothing is found
FindRow(rows, rowId) ==
    LET at == {i \in DOMAIN rows : rows[i].id = rowId}
    IN IF at = {} THEN 0 ELSE CHOOSE i \in at : \A j \in at : i <= j

FindColumn(colId) ==
    LET at == {i \in DOMAIN columns : columns[i].id = colId}
    IN IF at = {} THEN 0 ELSE CHOOSE i \in at : \A j \in at : i <= j

ArrowKeys == {"ArrowDown", "ArrowUp", "ArrowLeft", "ArrowRight"}

Keys == ArrowKeys \cup {"Home", "End"}

\* the cursor after handleKeyDown
handleKeyDown(cur, sorted, key) ==
    IF cur = <<>> /\ Len(sorted) > 0 /\ Len(columns) > 0
    THEN IF key \in ArrowKeys
         THEN <<[rowId |-> sorted[1].id, colId |-> columns[1].id]>>
         ELSE cur
    ELSE IF cur = <<>> THEN cur
    ELSE LET rowIndex == FindRow(sorted, cur[1].rowId) - 1
             colIndex == FindColumn(cur[1].colId) - 1
             handled == key \in ArrowKeys
             nextRowIndex == IF key = "ArrowUp" THEN Max(0, rowIndex - 1)
                             ELSE IF key = "ArrowDown" THEN Min(Len(sorted) - 1, rowIndex + 1)
                             ELSE rowIndex
             nextColIndex == IF key = "ArrowLeft" THEN Max(0, colIndex - 1)
                             ELSE IF key = "ArrowRight" THEN Min(Len(columns) - 1, colIndex + 1)
                             ELSE colIndex
         IN IF rowIndex = 0 - 1 \/ colIndex = 0 - 1 THEN cur
            ELSE IF handled
                 THEN <<[rowId |-> sorted[nextRowIndex + 1].id,
                         colId |-> columns[nextColIndex + 1].id]>>
                 ELSE cur

\* the cursor set by the onFocus handler of the grid
onFocus(cur, sorted) ==
    IF cur = <<>> /\ Len(sorted) > 0 /\ Len(columns) > 0
    THEN <<[rowId |-> sorted[1].id, colId |-> columns[1].id]>>
    ELSE cur

\* the updater of dispatchSortAction
nextSort(prev, colId, multi) ==
    LET at == {i \in DOMAIN prev : prev[i].columnId = colId}
        existingIdx == IF at = {} THEN 0 ELSE CHOOSE i \in at : \A j \in at : i <= j
    IN IF existingIdx # 0
       THEN IF prev[existingIdx].direction = "asc"
            THEN IF multi THEN [prev EXCEPT ![existingIdx].direction = "desc"]
                 ELSE <<[columnId |-> colId, direction |-> "desc"]>>
            ELSE IF multi THEN RemoveAt(prev, existingIdx)
                 ELSE <<>>
       ELSE IF multi THEN Append(prev, [columnId |-> colId, direction |-> "asc"])
            ELSE <<[columnId |-> colId, direction |-> "asc"]>>

\* the state of the component: the data prop and what its useState hooks hold
GridState == [data |-> data, sort |-> gridSort, cursorPosition |-> cursorPosition]

\* a sort action that keeps the cursor at its position in the displayed order
dispatchSortActionByIndex(g, colId, multi) ==
    LET next == nextSort(g.sort, colId, multi)
        at == IF g.cursorPosition = <<>> THEN 0
              ELSE FindRow(sortedData(g.data, g.sort), g.cursorPosition[1].rowId)
    IN [g EXCEPT !.sort = next,
                 !.cursorPosition =
                     IF at = 0 THEN g.cursorPosition
                     ELSE <<[g.cursorPosition[1] EXCEPT
                                !.rowId = sortedData(g.data, next)[at].id]>>]

\* the component state after dispatchSortAction: setSort is the only setter called
dispatchSortAction(g, colId, multi) == [g EXCEPT !.sort = nextSort(g.sort, colId, multi)]

(***************************************************************************)
(* DataGrid specification: the data prop is replaced, the grid is focused, *)
(* keys are pressed, cells are clicked and headers are clicked.  The       *)
(* component keeps its own state and shares none with a GridStore, so a    *)
(* run exercises either the component or a store that is loaded, given a   *)
(* focused cell and sorted.                                                *)
(***************************************************************************)
\* no store operation has run
StoreIdle == rowOrder = <<>> /\ sort = <<>> /\ focusedCell = <<>>

GridRow(id) == [id |-> id, a |-> MaxRows - id, b |-> ColB(id)]

\* the data props explored: the rows of some ids, in any order
GridCollections ==
    {[i \in DOMAIN ids |-> GridRow(ids[i])] :
        ids \in {seq \in UNION {[1..n -> RowIds] : n \in 0..MaxRows} :
                    \A i, j \in DOMAIN seq : seq[i] = seq[j] => i = j}}

\* the event just handled, with the component and store state before it
Event(op, args) ==
    lastCall' = <<[op |-> op, args |-> args,
                   prev |-> [grid |-> GridState,
                             sorted |-> sortedData(data, gridSort),
                             store |-> getState]]>>

GridSetData ==
    /\ StoreIdle
    /\ \E rows \in GridCollections :
        /\ data' = rows
        /\ Event("data", <<rows>>)
        /\ UNCHANGED <<gridSort, cursorPosition, stateVars, notifyVars>>

GridFocus ==
    /\ StoreIdle
    /\ cursorPosition' = onFocus(cursorPosition, sortedData(data, gridSort))
    /\ Event("onFocus", <<>>)
    /\ UNCHANGED <<data, gridSort, stateVars, notifyVars>>

GridKeyDown ==
    /\ StoreIdle
    /\ \E key \in Keys :
        /\ cursorPosition' = handleKeyDown(cursorPosition, sortedData(data, gridSort), key)
        /\ Event("handleKeyDown", <<key>>)
        /\ UNCHANGED <<data, gridSort, stateVars, notifyVars>>

\* onClick of a rendered cell
GridClickCell ==
    /\ StoreIdle
    /\ \E i \in DOMAIN data, c \in {columns[1].id, columns[Len(columns)].id} :
        /\ cursorPosition' = <<[rowId |-> data[i].id, colId |-> c]>>
        /\ Event("onClick", <<data[i].id, c>>)
        /\ UNCHANGED <<data, gridSort, stateVars, notifyVars>>

GridDispatchSortAction ==
    /\ StoreIdle
    /\ \E colId \in {"a", "b"}, multi \in BOOLEAN :
        LET g == dispatchSortAction(GridState, colId, multi)
        IN /\ gridSort' = g.sort
           /\ cursorPosition' = g.cursorPosition
           /\ data' = g.data
           /\ Event("dispatchSortAction", <<colId, multi>>)
           /\ UNCHANGED <<stateVars, notifyVars>>

\* the store is loaded with the rows of all ids
GridStoreSetData ==
    /\ GridIdle
    /\ setData([i \in RowIds |-> GridRow(i)])
    /\ Event("setData", <<>>)
    /\ UNCHANGED gridVars

\* setState(() => ({ focusedCell })) for the first cell
GridStoreFocus ==
    /\ GridIdle
    /\ setState([focusedCell |-> <<[rowId |-> 1, colId |-> "a"]>>])
    /\ Event("setState", <<>>)
    /\ UNCHANGED gridVars

GridStoreToggleSort ==
    /\ GridIdle
    /\ toggleSort("a", FALSE)
    /\ Event("toggleSort", <<"a", FALSE>>)
    /\ UNCHANGED gridVars

NextGrid ==
    /\ \/ GridSetData
       \/ GridFocus
       \/ GridKeyDown
       \/ GridClickCell
       \/ GridDispatchSortAction
       \/ GridStoreSetData
       \/ GridStoreFocus
       \/ GridStoreToggleSort
    /\ UNCHANGED <<options, range, fresh, layoutOptions, layout, commitVars, heapVars, toggled>>

SpecGrid == Init /\ [][NextGrid]_vars

(***************************************************************************)
(* Virtualizer specification                                               *)
(***************************************************************************)
InitVirt ==
    /\ StoreInit
    /\ options \in VirtualizerOptions
    /\ range = EmptyRange
    /\ fresh = FALSE
    /\ layoutOptions = <<>>
    /\ layout = <<>>
    /\ GridIdle

setOptions(newOptions) ==
    /\ options' = newOptions
    /\ range' = EmptyRange
    /\ fresh' = FALSE

SetOptions == \E o \in VirtualizerOptions : setOptions(o)

CalculateRange ==
    /\ range' = calculateRange(options)
    /\ fresh' = TRUE
    /\ UNCHANGED options

NextVirt ==
    /\ \/ SetOptions
       \/ CalculateRange
    /\ UNCHANGED <<layoutOptions, layout, gridVars, stateVars, notifyVars, commitVars,
                   heapVars, toggled, lastCall>>

SpecVirt == InitVirt /\ [][NextVirt]_vars

(***************************************************************************)
(* The useVirtualizer hook of src/hooks: options holds the options of the  *)
(* Virtualizer in virtualizerRef and range the range the last render       *)
(* returned.  Once the effects of a render have run, options.count and     *)
(* options.scrollOffset are that render's count prop and scrollTop state.  *)
(***************************************************************************)
\* the first render: scrollTop is 0, the Virtualizer is constructed with the
\* props and the range is calculated from it
InitHook ==
    /\ StoreInit
    /\ options \in {o \in VirtualizerOptions : o.scrollOffset = 0}
    /\ range = calculateRange(options)
    /\ fresh = TRUE
    /\ layoutOptions = <<>>
    /\ layout = <<>>
    /\ GridIdle

\* the range a render computes in useMemo while the effect of that render has
\* not yet passed its values to the Virtualizer
useMemoRange(o, memo, count, scrollTop) ==
    IF count # o.count \/ scrollTop # o.scrollOffset
    THEN calculateRange(o)
    ELSE memo

\* one render of the hook with its effects: useMemo, then the effect's setOptions
render(count, scrollTop) ==
    /\ range' = useMemoRange(options, range, count, scrollTop)
    /\ options' = [options EXCEPT !.count = count, !.scrollOffset = scrollTop]
    /\ fresh' = TRUE

\* the scroll listener: setScrollTop(scrollElement.scrollTop), which renders
HookScroll == \E scrollTop \in 0..MaxScroll : render(options.count, scrollTop)

\* the component renders the hook with a count prop
HookRender == \E count \in 0..MaxCount : render(count, options.scrollOffset)

NextHook ==
    /\ \/ HookScroll
       \/ HookRender
    /\ UNCHANGED <<layoutOptions, layout, gridVars, stateVars, notifyVars, commitVars,
                   heapVars, toggled, lastCall>>

SpecHook == InitHook /\ [][NextHook]_vars

(***************************************************************************)
(* Claims about Virtualizer.calculateRange (SpecVirt)                      *)
(***************************************************************************)
\* C1: for count >= 1 (itemSize > 0, overscan >= 0, any scrollOffset and
\* containerSize) the returned indices satisfy
\* 0 <= startIndex <= endIndex <= count - 1.
C1_IndicesWithinBounds ==
    (fresh /\ options.count >= 1) =>
        /\ 0 <= range.startIndex
        /\ range.startIndex <= range.endIndex
        /\ range.endIndex <= options.count - 1

Clamp(x, lo, hi) == Max(lo, Min(hi, x))

\* the reference result of claim C9
ReferenceRange(o) ==
    IF o.count = 0 THEN [startIndex |-> 0, endIndex |-> 0, items |-> <<>>, totalSize |-> 0]
    ELSE LET rawStart == Clamp(Floor(o.scrollOffset, o.itemSize), 0, o.count - 1)
             rawEnd == Clamp(Ceil(o.scrollOffset + o.containerSize, o.itemSize), 0, o.count - 1)
             first == Max(0, rawStart - o.overscan)
             last == Min(o.count - 1, rawEnd + o.overscan)
         IN [startIndex |-> first,
             endIndex |-> last,
             items |-> [k \in 1..(last - first + 1) |->
                          [index |-> first + k - 1,
                           start |-> (first + k - 1) * o.itemSize,
                           size |-> o.itemSize,
                           end |-> (first + k - 1) * o.itemSize + o.itemSize]],
             totalSize |-> o.count * o.itemSize]

\* C9: for every input calculateRange returns the reference result (count = 0
\* gives the empty range; otherwise both raw indices are clamped to
\* [0, count - 1] before overscan is applied and one item is emitted per index).
C9_EqualsReference == fresh => range = ReferenceRange(options)

MaxScrollOffset(o) == Max(0, o.count * o.itemSize - o.containerSize)

InViewport(o, i) ==
    /\ i * o.itemSize < o.scrollOffset + o.containerSize
    /\ (i + 1) * o.itemSize > o.scrollOffset

C10_Precondition ==
    /\ fresh
    /\ options.count >= 1
    /\ options.containerSize >= 0
    /\ 0 <= options.scrollOffset
    /\ options.scrollOffset <= MaxScrollOffset(options)

\* C10: for count >= 1, containerSize >= 0 and a scroll offset within
\* [0, max(0, count*itemSize - containerSize)], every row whose span intersects
\* the viewport lies in [startIndex, endIndex], and at the maximum scroll offset
\* endIndex = count - 1.
C10_ViewportCovered ==
    C10_Precondition =>
        /\ \A i \in 0..(options.count - 1) :
              InViewport(options, i) => (range.startIndex <= i /\ i <= range.endIndex)
        /\ options.scrollOffset = MaxScrollOffset(options) => range.endIndex = options.count - 1

C10_Witness ==
    /\ C10_Precondition
    /\ options.scrollOffset = MaxScrollOffset(options)
    /\ options.scrollOffset > 0
    /\ range.startIndex > 0
    /\ \E i \in 0..(options.count - 1) : InViewport(options, i)

WindowBound(o) == Ceil(o.containerSize, o.itemSize) + 2 * o.overscan + 2

\* C11: for itemSize > 0, containerSize >= 0 and scrollOffset >= 0 the number
\* of items calculateRange returns is at most
\* ceil(containerSize / itemSize) + 2 * overscan + 2, whatever count is.
C11_ItemsBoundedByWindow ==
    (fresh /\ options.containerSize >= 0 /\ options.scrollOffset >= 0) =>
        Len(range.items) <= WindowBound(options)

C11_Witness ==
    /\ fresh
    /\ options.containerSize >= 0
    /\ options.scrollOffset >= 0
    /\ Len(range.items) = WindowBound(options)
    /\ options.count > WindowBound(options)

(***************************************************************************)
(* Claims about the store's data and sorting (Spec)                        *)
(***************************************************************************)
NoDuplicates(seq) == \A i, j \in DOMAIN seq : seq[i] = seq[j] => i = j

\* C6: with unique row ids in every collection given to setData, in every
\* state reachable by setData, toggleSort, updateRow, startEdit, commitEdit and
\* cancelEdit the ids of rowOrder are exactly the keys of rowMap and rowOrder
\* has no duplicates.
C6_RowOrderMatchesRowMap ==
    /\ Range(rowOrder) = DOMAIN rowMap
    /\ NoDuplicates(rowOrder)

C6_Witness ==
    /\ Len(rowOrder) >= 2
    /\ Len(sort) > 0
    /\ editingCell # <<>>
    /\ \E id \in DOMAIN rowMap : rowMap[id].a # Null

\* the first descriptor on which two rows differ, as a set of at most one index
FirstDifference(rowA, rowB, descriptors) ==
    {i \in DOMAIN descriptors :
        /\ rowA[descriptors[i].columnId] # rowB[descriptors[i].columnId]
        /\ \A j \in 1..(i - 1) : rowA[descriptors[j].columnId] = rowB[descriptors[j].columnId]}

\* C7: in the order produced by sortRows, on the first descriptor on which two
\* rows differ a row with a null value never precedes a row with a non-null
\* value, whatever the direction.
C7_NullsLast ==
    Len(sort) > 0 =>
        LET order == sortRows(getState)
        IN \A i, j \in DOMAIN order :
              i < j =>
                \A d \in FirstDifference(rowMap[order[i]], rowMap[order[j]], sort) :
                    ~(/\ rowMap[order[i]][sort[d].columnId] = Null
                      /\ rowMap[order[j]][sort[d].columnId] # Null)

IsPermutation(s, t) ==
    /\ Len(s) = Len(t)
    /\ \A x \in Range(s) \cup Range(t) :
          Cardinality({i \in DOMAIN s : s[i] = x}) = Cardinality({i \in DOMAIN t : t[i] = x})

\* order is what a stable sort of given under the comparator of state yields
IsStableSortOf(order, given, state) ==
    /\ IsPermutation(order, given)
    /\ \A i, j \in DOMAIN order :
          i < j =>
            /\ comparator(state, order[i], order[j]) <= 0
            /\ comparator(state, order[i], order[j]) = 0 =>
                  IndexOf(given, order[i]) < IndexOf(given, order[j])

SetDataPost(rows, next) ==
    LET given == [i \in DOMAIN rows |-> getRowId(rows[i])]
    IN /\ DOMAIN next.rowMap = Range(given)
       /\ \A i \in DOMAIN rows : next.rowMap[given[i]] = rows[i]
       /\ IsPermutation(next.rowOrder, given)
       /\ Len(sort) = 0 => next.rowOrder = given
       /\ Len(sort) > 0 => IsStableSortOf(next.rowOrder, given, next)

\* C8: setData under a non-empty sort yields a rowOrder that is a permutation
\* of the new ids ordered by the current comparator; under an empty sort it
\* yields the ids in the given order; rowMap maps exactly the new ids to the
\* new rows.
C8_SetDataAppliesSort == loaded # <<>> => SetDataPost(loaded[1], getState)

C8_Witness ==
    /\ loaded # <<>>
    /\ Len(sort) > 1
    /\ Len(loaded[1]) >= 2
    /\ rowOrder # [i \in DOMAIN loaded[1] |-> getRowId(loaded[1][i])]

C2_EditRollback ==
    (outcome # <<>> /\ outcome[1].existed /\ outcome[1].undisturbed) =>
        LET p == outcome[1]
        IN /\ p.rowId \in DOMAIN rowMap
           /\ rowMap[p.rowId][p.colId] = p.before
           /\ editingCell # <<>>
           /\ editingCell[1].rowId = p.rowId
           /\ editingCell[1].colId = p.colId
           /\ editingCell[1].error # <<>>
           /\ editingCell[1].isSaving = FALSE
           /\ editingCell[1].value = p.value

C2_Witness ==
    /\ outcome # <<>>
    /\ outcome[1].existed
    /\ outcome[1].undisturbed
    /\ outcome[1].value # outcome[1].before
    /\ editingCell # <<>>
    /\ editingCell[1].error = <<"Validation failed">>

\* C3 as stated: while an onCellEdit call is pending the store holds an
\* editing state for the committed cell with isSaving = TRUE.
C3_SavingWhilePending ==
    \A i \in DOMAIN pending :
        /\ editingCell # <<>>
        /\ editingCell[1].rowId = pending[i].rowId
        /\ editingCell[1].colId = pending[i].colId
        /\ editingCell[1].isSaving = TRUE

\* C3 amended: from the call to onCellEdit until the next store transition the
\* store holds no editing state; commitEdit has closed the editor and, when the
\* row exists, has written the attempted value into it.
C3_ClosedWhilePending ==
    \A i \in DOMAIN pending :
        pending[i].undisturbed =>
            /\ editingCell = <<>>
            /\ pending[i].existed =>
                  rowMap[pending[i].rowId][pending[i].colId] = pending[i].value

C3_Witness ==
    \E i \in DOMAIN pending :
        /\ pending[i].undisturbed
        /\ pending[i].existed
        /\ pending[i].value # pending[i].before

(***************************************************************************)
(* Claims about subscribe / notify (SpecNotify)                            *)
(***************************************************************************)
Called == {l \in Listeners : pass.called[l] > 0}

\* C4: the listeners called by one transition are exactly those registered
\* when its notification pass started.
C4_FixedSubscriberSet == ~notifying => Called = pass.start

\* C5: every transition, also one that leaves the state as it was, replaces
\* the snapshot and then calls each registered listener exactly once with a
\* snapshot equal to getState().
C5_EveryTransitionNotifies ==
    ~notifying =>
        \A l \in pass.start :
            /\ pass.called[l] = 1
            /\ pass.received[l] = <<getState>>

\* C13: after the unsubscribe function of a listener has been called, no
\* later transition calls that listener, while every other listener that is
\* registered is called once per transition.  (Per pass, for the listeners
\* that were not subscribed or unsubscribed since the pass started.)
C13_UnsubscribeStopsCalls ==
    \A l \in Listeners \ pass.changed :
        /\ l \in pass.gone => pass.called[l] = 0
        /\ (~notifying /\ l \in Range(listeners)) => pass.called[l] = 1

C13_Witness ==
    /\ ~notifying
    /\ \E l \in pass.gone \ pass.changed : pass.called[l] = 0
    /\ \E l \in Range(listeners) \ pass.changed : pass.called[l] = 1

(***************************************************************************)
(* Claims about toggleSort (SpecSort)                                      *)
(***************************************************************************)
\* C14: single-sort mode: from a state in which column c has no descriptor,
\* three consecutive toggleSort(c, false) calls give sort = [c asc], then
\* [c desc], then the empty sequence; and after any toggleSort(c, false) the
\* sort sequence has no descriptor for a column other than c.
C14_SingleSortCycle ==
    (toggled # <<>> /\ ~toggled[1].multi) =>
        LET c == toggled[1].columnId
            n == toggled[1].streak
        IN /\ n = 1 => sort = <<[columnId |-> c, direction |-> "asc"]>>
           /\ n = 2 => sort = <<[columnId |-> c, direction |-> "desc"]>>
           /\ n = 3 => sort = <<>>
           /\ \A i \in DOMAIN sort : sort[i].columnId = c

C14_Witness ==
    /\ toggled # <<>>
    /\ ~toggled[1].multi
    /\ toggled[1].streak = 3
    /\ Len(rowOrder) >= 2

\* C15: multi-sort mode: toggleSort(c, true) appends {c, asc} at the end when
\* c has no descriptor, replaces c's descriptor by {c, desc} at the same
\* position when it is ascending and removes it when it is descending; the
\* descriptors of the other columns keep their directions and relative order.
C15_MultiSortToggle ==
    (toggled # <<>> /\ toggled[1].multi) =>
        LET c == toggled[1].columnId
            before == toggled[1].prev.sort
            at == {i \in DOMAIN before : before[i].columnId = c}
            others(seq) == SelectSeq(seq, LAMBDA d : d.columnId # c)
        IN /\ at = {} => sort = before \o <<[columnId |-> c, direction |-> "asc"]>>
           /\ \A i \in at :
                 /\ before[i].direction = "asc" =>
                       /\ Len(sort) = Len(before)
                       /\ sort[i] = [columnId |-> c, direction |-> "desc"]
                 /\ before[i].direction = "desc" =>
                       /\ Len(sort) = Len(before) - 1
                       /\ ~HasDescriptor(sort, c)
           /\ others(sort) = others(before)

C15_Witness ==
    /\ toggled # <<>>
    /\ toggled[1].multi
    /\ Len(sort) = 2
    /\ sort[1] = [columnId |-> toggled[1].columnId, direction |-> "desc"]
    /\ toggled[1].prev.sort[1].direction = "asc"

\* rowA is greater than rowB under the lexicographic comparison over the
\* descriptors: the first descriptor on which they differ puts rowB first
LexGreater(rowA, rowB, descriptors) ==
    \E d \in FirstDifference(rowA, rowB, descriptors) :
        LET valA == rowA[descriptors[d].columnId]
            valB == rowB[descriptors[d].columnId]
        IN IF descriptors[d].direction = "asc" THEN valA > valB ELSE valA < valB

\* the values the comparison of the two rows looks at are not null
ComparedNonNull(rowA, rowB, descriptors) ==
    \A d \in FirstDifference(rowA, rowB, descriptors) :
        \A k \in 1..d : /\ rowA[descriptors[k].columnId] # Null
                         /\ rowB[descriptors[k].columnId] # Null

\* C16: after a toggleSort that leaves a non-empty sort sequence, rowOrder is
\* a permutation of the previous rowOrder in which, for every pair of rows with
\* non-null compared values, the row placed first is not greater under the
\* lexicographic comparison over the descriptors in priority order.
C16_ToggleSortOrdersRows ==
    (toggled # <<>> /\ Len(sort) > 0) =>
        /\ IsPermutation(rowOrder, toggled[1].prev.rowOrder)
        /\ \A i, j \in DOMAIN rowOrder :
              (i < j /\ ComparedNonNull(rowMap[rowOrder[i]], rowMap[rowOrder[j]], sort)) =>
                  ~LexGreater(rowMap[rowOrder[i]], rowMap[rowOrder[j]], sort)

C16_Witness ==
    /\ toggled # <<>>
    /\ Len(sort) = 2
    /\ Len(rowOrder) >= 2
    /\ rowOrder # toggled[1].prev.rowOrder
    /\ rowMap[rowOrder[1]][sort[1].columnId] = rowMap[rowOrder[2]][sort[1].columnId]
    /\ rowMap[rowOrder[1]][sort[1].columnId] # Null
    /\ rowMap[rowOrder[1]][sort[2].columnId] # rowMap[rowOrder[2]][sort[2].columnId]

(***************************************************************************)
(* Claims about the editing operations (SpecCell)                          *)
(***************************************************************************)
Did(op) == lastCall # <<>> /\ lastCall[1].op = op

\* C17: commitEdit with no active edit leaves the state's fields unchanged;
\* with an active edit whose rowId is not in rowMap it sets editingCell to null
\* and leaves rowMap unchanged; otherwise the row at rowId becomes the old row
\* with field colId holding the edit's value, every other rowMap entry is
\* unchanged and editingCell becomes null.
C17_CommitEdit ==
    Did("commitEdit") =>
        LET prev == lastCall[1].prev
        IN IF prev.editingCell = <<>> THEN getState = prev
           ELSE LET e == prev.editingCell[1]
                IN IF e.rowId \notin DOMAIN prev.rowMap
                   THEN editingCell = <<>> /\ rowMap = prev.rowMap
                   ELSE /\ editingCell = <<>>
                        /\ DOMAIN rowMap = DOMAIN prev.rowMap
                        /\ rowMap[e.rowId] = Spread(prev.rowMap[e.rowId], (e.colId :> e.value))
                        /\ \A id \in DOMAIN rowMap \ {e.rowId} : rowMap[id] = prev.rowMap[id]

C17_Witness ==
    /\ Did("commitEdit")
    /\ lastCall[1].prev.editingCell # <<>>
    /\ lastCall[1].prev.editingCell[1].rowId \in DOMAIN lastCall[1].prev.rowMap
    /\ rowMap # lastCall[1].prev.rowMap
    /\ Cardinality(DOMAIN rowMap) >= 2

\* C18: at most one cell is being edited: startEdit(rowId, colId, v) always
\* sets editingCell to {rowId, colId, value v, originalValue v, isSaving
\* false, error null}, replacing whatever editing state existed before.
C18_StartEditReplaces ==
    /\ Len(editingCell) <= 1
    /\ Did("startEdit") =>
          editingCell = <<[rowId |-> lastCall[1].args[1], colId |-> lastCall[1].args[2],
                           value |-> lastCall[1].args[3],
                           originalValue |-> lastCall[1].args[3],
                           isSaving |-> FALSE, error |-> <<>>]>>

C18_Witness ==
    /\ Did("startEdit")
    /\ lastCall[1].prev.editingCell # <<>>
    /\ lastCall[1].prev.editingCell[1].isSaving
    /\ lastCall[1].prev.editingCell[1].rowId # lastCall[1].args[1]
    /\ lastCall[1].args[3] # Null

\* C19: when editingCell is null, updateEditValue, setEditSaving and
\* setEditError leave every field of the state unchanged: editingCell stays
\* null and no editing state is created.
C19_NoEditNoChange ==
    ((Did("updateEditValue") \/ Did("setEditSaving") \/ Did("setEditError"))
        /\ lastCall[1].prev.editingCell = <<>>) =>
            getState = lastCall[1].prev

C19_Witness ==
    /\ Did("setEditError")
    /\ lastCall[1].args[1] # <<>>
    /\ lastCall[1].prev.editingCell = <<>>
    /\ rowMap # <<>>

\* C20: with an active edit, updateEditValue(v) sets value to v and error to
\* null, setEditError(m) sets error to m and isSaving to false, setEditSaving(b)
\* sets only isSaving; each leaves rowId, colId and originalValue of the
\* editing state and the whole rowMap unchanged.
C20_EditFieldUpdates ==
    (lastCall # <<>> /\ lastCall[1].prev.editingCell # <<>>) =>
        LET e == lastCall[1].prev.editingCell[1]
            arg == lastCall[1].args[1]
        IN /\ Did("updateEditValue") =>
                 /\ editingCell = <<[e EXCEPT !.value = arg, !.error = <<>>]>>
                 /\ rowMap = lastCall[1].prev.rowMap
           /\ Did("setEditError") =>
                 /\ editingCell = <<[e EXCEPT !.error = arg, !.isSaving = FALSE]>>
                 /\ rowMap = lastCall[1].prev.rowMap
           /\ Did("setEditSaving") =>
                 /\ editingCell = <<[e EXCEPT !.isSaving = arg]>>
                 /\ rowMap = lastCall[1].prev.rowMap

C20_Witness ==
    /\ Did("updateEditValue")
    /\ lastCall[1].prev.editingCell # <<>>
    /\ lastCall[1].prev.editingCell[1].error # <<>>
    /\ lastCall[1].prev.editingCell[1].value # lastCall[1].args[1]
    /\ lastCall[1].prev.editingCell[1].originalValue # lastCall[1].args[1]
    /\ rowMap # <<>>

(***************************************************************************)
(* Claims about updateRow (SpecRow)                                        *)
(***************************************************************************)
\* C21: updateRow(rowId, fields) leaves rowMap and rowOrder unchanged when
\* rowId is not in rowMap; otherwise it replaces only the entry of rowId by the
\* old row overridden by the given fields and leaves all other rows, rowOrder,
\* sort and editingCell unchanged.
C21_UpdateRowFrame ==
    Did("updateRow") =>
        LET prev == lastCall[1].prev
            rowId == lastCall[1].args[1]
            updates == lastCall[1].args[2]
        IN IF rowId \notin DOMAIN prev.rowMap
           THEN rowMap = prev.rowMap /\ rowOrder = prev.rowOrder
           ELSE /\ DOMAIN rowMap = DOMAIN prev.rowMap
                /\ rowMap[rowId] = Spread(prev.rowMap[rowId], updates)
                /\ \A id \in DOMAIN rowMap \ {rowId} : rowMap[id] = prev.rowMap[id]
                /\ rowOrder = prev.rowOrder
                /\ sort = prev.sort
                /\ editingCell = prev.editingCell

C21_Witness ==
    /\ Did("updateRow")
    /\ lastCall[1].args[1] \in DOMAIN lastCall[1].prev.rowMap
    /\ rowMap # lastCall[1].prev.rowMap
    /\ Len(rowOrder) >= 2
    /\ Len(sort) > 0
    /\ editingCell # <<>>
    /\ rowOrder # sortRows(getState)

(***************************************************************************)
(* Claims about the column operations (SpecCols, SpecMove)                 *)
(***************************************************************************)
\* C22: resizeColumn, toggleColumnVisibility, toggleSort and moveColumn called
\* with a column id that is not a column of the grid, and startEdit called with
\* a rowId that is not in rowMap, leave columnWidths, columnVisibility, sort,
\* columnOrder and editingCell unchanged.
C22_UnknownIdsIgnored ==
    lastCall # <<>> =>
        LET prev == lastCall[1].prev
            op == lastCall[1].op
            args == lastCall[1].args
            unknown ==
                \/ /\ op \in {"resizeColumn", "toggleColumnVisibility", "toggleSort"}
                   /\ args[1] \notin Range(prev.columnOrder)
                \/ /\ op = "moveColumn"
                   /\ \E i \in 1..2 : args[i] \notin Range(prev.columnOrder)
                \/ op = "startEdit" /\ args[1] \notin DOMAIN prev.rowMap
        IN unknown =>
              /\ columnWidths = prev.columnWidths
              /\ columnVisibility = prev.columnVisibility
              /\ sort = prev.sort
              /\ columnOrder = prev.columnOrder
              /\ editingCell = prev.editingCell

\* C23: resizeColumn(id, w) stores max(50, w) as the width of id for every
\* integer w, and leaves the widths of all other columns unchanged.
C23_ResizeStoresFloor ==
    Did("resizeColumn") =>
        LET prev == lastCall[1].prev
            id == lastCall[1].args[1]
            w == lastCall[1].args[2]
        IN /\ id \in DOMAIN columnWidths
           /\ columnWidths[id] = (IF w >= 50 THEN w ELSE 50)
           /\ DOMAIN columnWidths \ {id} = DOMAIN prev.columnWidths \ {id}
           /\ \A c \in DOMAIN columnWidths \ {id} : columnWidths[c] = prev.columnWidths[c]

C23_Witness ==
    /\ Did("resizeColumn")
    /\ lastCall[1].args[2] < 50
    /\ lastCall[1].args[1] \in DOMAIN lastCall[1].prev.columnWidths
    /\ lastCall[1].prev.columnWidths[lastCall[1].args[1]] > 50
    /\ Cardinality(DOMAIN columnWidths) > 2

\* C24: in every reachable state of a store constructed from column
\* definitions, the initial state included, every value in columnWidths is at
\* least 50.
C24_WidthsAtLeastFloor == \A c \in DOMAIN columnWidths : columnWidths[c] >= 50

\* C26: toggleColumnVisibility(id) makes a column that is visible to the layout
\* engine hidden and a hidden one visible, leaves the visibility of every other
\* column unchanged, and a second toggle of the same id restores the
\* visibility the column had before the first.
C26_ToggleFlipsVisibility ==
    (Did("toggleColumnVisibility") /\ lastCall[1].args[1] \in Range(columnOrder)) =>
        LET prev == lastCall[1].prev
            id == lastCall[1].args[1]
            again == toggleColumnVisibilityUpdate(getState, id).columnVisibility
        IN /\ Visible(columnVisibility, id) = ~Visible(prev.columnVisibility, id)
           /\ \A c \in Range(columnOrder) \ {id} :
                  Visible(columnVisibility, c) = Visible(prev.columnVisibility, c)
           /\ Visible(again, id) = Visible(prev.columnVisibility, id)

\* C25: moveColumn(drag, hover) with both ids in columnOrder and different
\* yields a permutation of the previous columnOrder in which drag sits at the
\* index hover had before the call and all other ids keep their relative
\* order; when either id is absent or drag = hover, columnOrder is the same
\* value and the same array object as before the call.
C25_MoveColumn ==
    Did("moveColumn") =>
        LET prev == lastCall[1].prev
            drag == lastCall[1].args[1]
            hover == lastCall[1].args[2]
            before == issued[Len(issued) - 1].ref
        IN IF drag \in Range(prev.columnOrder) /\ hover \in Range(prev.columnOrder)
              /\ drag # hover
           THEN /\ IsPermutation(columnOrder, prev.columnOrder)
                /\ IndexOf(columnOrder, drag) = IndexOf(prev.columnOrder, hover)
                /\ Without(columnOrder, drag) = Without(prev.columnOrder, drag)
           ELSE /\ columnOrder = prev.columnOrder
                /\ heap[stateRef].columnOrder = heap[before].columnOrder

C25_Witness ==
    /\ Did("moveColumn")
    /\ columnOrder # lastCall[1].prev.columnOrder
    /\ columnOrder[1] = lastCall[1].prev.columnOrder[Len(columnOrder)]
    /\ \E k \in 1..(Len(issued) - 2) :
          /\ issued[k].value.columnOrder = issued[k + 1].value.columnOrder
          /\ heap[issued[k].ref].columnOrder = heap[issued[k + 1].ref].columnOrder

(***************************************************************************)
(* Claims about ColumnVirtualizer.calculateLayout (SpecLayout)             *)
(***************************************************************************)
\* the width of a column as specified: its entry in columnWidths, 100 when it
\* has none
SpecifiedWidth(o, id) ==
    IF id \in DOMAIN o.columnWidths THEN o.columnWidths[id] ELSE 100

\* the visible columns in visual order: left-pinned, scrollable, right-pinned
FullOrder(o) == leftIds(o) \o scrollableIds(o) \o rightIds(o)

\* the sum of the specified widths of the columns of ids at the positions in at
WidthsAt(o, ids, at) ==
    Sum([i \in DOMAIN ids |-> IF i \in at THEN SpecifiedWidth(o, ids[i]) ELSE 0])

OutputIds == [k \in DOMAIN layout[1].virtualColumns |-> layout[1].virtualColumns[k].id]

\* C27: the output of calculateLayout is the visible left-pinned columns in
\* pinnedColumns.left order, then the rendered scrollable columns in
\* columnOrder order, then the visible right-pinned columns in
\* pinnedColumns.right order, and the index of each output column is its
\* position in the full visual order, culled scrollable columns included.
C27_OutputOrder ==
    layout # <<>> =>
        LET o == layoutOptions
            out == layout[1].virtualColumns
            rendered == SelectSeq(scrollableIds(o), LAMBDA id : id \in Range(OutputIds))
        IN /\ OutputIds = leftIds(o) \o rendered \o rightIds(o)
           /\ \A k \in DOMAIN out :
                  /\ out[k].index \in 0..(Len(FullOrder(o)) - 1)
                  /\ FullOrder(o)[out[k].index + 1] = out[k].id

C27_Witness ==
    /\ layout # <<>>
    /\ Len(layout[1].virtualColumns) = 2
    /\ layout[1].virtualColumns[1].isPinned = "left"
    /\ layout[1].virtualColumns[1].id = layoutOptions.columnOrder[3]
    /\ layout[1].virtualColumns[2].isPinned = "right"
    /\ layout[1].virtualColumns[2].id = layoutOptions.columnOrder[1]
    /\ layout[1].virtualColumns[2].index = 2

\* C28: the stickyOffset of a visible left-pinned column is the sum of the
\* widths of the visible left-pinned columns before it, that of a visible
\* right-pinned column is the sum of the widths of the visible right-pinned
\* columns after it, and that of every scrollable column is 0.
C28_StickyOffsets ==
    layout # <<>> =>
        LET o == layoutOptions
            out == layout[1].virtualColumns
        IN \A k \in DOMAIN out :
              LET id == out[k].id
                  l == IndexOf(leftIds(o), id)
                  r == IndexOf(rightIds(o), id)
              IN out[k].stickyOffset =
                    IF id \in Range(leftIds(o))
                    THEN WidthsAt(o, leftIds(o), 1..(l - 1))
                    ELSE IF id \in Range(rightIds(o))
                    THEN WidthsAt(o, rightIds(o), (r + 1)..Len(rightIds(o)))
                    ELSE 0

\* C29: every visible pinned column is output, and a visible scrollable column
\* is output if and only if its span [start, end] intersects
\* [scrollLeft - overscan, scrollLeft + viewportWidth + overscan].
C29_CullingByIntersection ==
    layout # <<>> =>
        LET o == layoutOptions
            full == FullOrder(o)
            start(i) == WidthsAt(o, full, 1..(i - 1))
            end(i) == start(i) + SpecifiedWidth(o, full[i])
        IN /\ Range(leftIds(o)) \cup Range(rightIds(o)) \subseteq Range(OutputIds)
           /\ \A i \in DOMAIN full :
                  full[i] \in Range(scrollableIds(o)) =>
                      (full[i] \in Range(OutputIds)
                          <=> (end(i) >= visibleStart(o) /\ start(i) <= visibleEnd(o)))

\* C30: totalWidth is the sum of the widths of all visible columns and does not
\* depend on scrollLeft, viewportWidth and overscan; a hidden column is never
\* output; the start of each output column is the sum of the widths of the
\* columns before it in visual order and its end is start + size.
C30_TotalWidthAndOffsets ==
    layout # <<>> =>
        LET o == layoutOptions
            out == layout[1].virtualColumns
            full == FullOrder(o)
        IN /\ layout[1].totalWidth = WidthsAt(o, full, DOMAIN full)
           /\ \A sl \in 0..MaxScrollLeft, vw \in 0..MaxViewportWidth,
                 ov \in OverscanOptions :
                  calculateLayout(Spread([o EXCEPT !.scrollLeft = sl, !.viewportWidth = vw],
                                         ov)).totalWidth
                      = layout[1].totalWidth
           /\ \A k \in DOMAIN out :
                  /\ isVisible(o, out[k].id)
                  /\ out[k].start = WidthsAt(o, full, 1..out[k].index)
                  /\ out[k].end = out[k].start + out[k].size

\* C31: calculateLayout uses 100 as the width of a column only when the column
\* has no entry in columnWidths; a width present in the map, 0 included, is the
\* size of the column, the length of its span, and its term in totalWidth.
C31_DefaultWidthOnlyWhenMissing ==
    layout # <<>> =>
        LET o == layoutOptions
            out == layout[1].virtualColumns
        IN /\ \A k \in DOMAIN out :
                  /\ out[k].size = SpecifiedWidth(o, out[k].id)
                  /\ out[k].end - out[k].start = SpecifiedWidth(o, out[k].id)
           /\ layout[1].totalWidth =
                  Sum([i \in DOMAIN FullOrder(o) |-> SpecifiedWidth(o, FullOrder(o)[i])])

(***************************************************************************)
(* Claims about snapshots (SpecSnap)                                       *)
(***************************************************************************)
\* the heap and the values describe the same state
HeapMatchesState == stateRef = issued[Len(issued)].ref /\ Deep(heap, stateRef) = getState

\* C12: every transition makes getState() return a top-level object different
\* from the one returned before it, and every snapshot handed out earlier
\* keeps the values of all its fields (the contents of its rowMap, rowOrder,
\* sort, columnOrder, columnWidths and editingCell included) under every later
\* sequence of transitions.
C12_SnapshotsImmutable ==
    /\ HeapMatchesState
    /\ \A k \in 1..(Len(issued) - 1) : issued[k].ref # issued[k + 1].ref
    /\ \A k \in DOMAIN issued : Deep(heap, issued[k].ref) = issued[k].value

C12_Witness ==
    /\ Len(issued) >= 4
    /\ issued[2].value.rowMap # << >>
    /\ issued[3].value.rowMap # getState.rowMap
    /\ issued[3].value.editingCell # << >>
    /\ editingCell = << >>


(***************************************************************************)
(* Claims about the DataGrid component (SpecGrid)                          *)
(***************************************************************************)
\* position of the cursor's row in the displayed order of a component state
DisplayedAt(g) ==
    IF g.cursorPosition = <<>> THEN 0
    ELSE FindRow(sortedData(g.data, g.sort), g.cursorPosition[1].rowId)

\* C33: a sort change leaves the focused cell's rowId and colId as they
\* were: dispatchSortAction leaves the cursor of the DataGrid unchanged and
\* toggleSort leaves the store's focusedCell unchanged, whatever reordering
\* of the rows the new sort causes.
C33_FocusTrackedByIdentity ==
    /\ Did("dispatchSortAction") => cursorPosition = lastCall[1].prev.grid.cursorPosition
    /\ Did("toggleSort") => focusedCell = lastCall[1].prev.store.focusedCell

\* a sort action that moved the row under the cursor to another position
C33_Witness ==
    /\ Did("dispatchSortAction")
    /\ cursorPosition # <<>>
    /\ DisplayedAt(GridState) # 0
    /\ DisplayedAt(GridState) # DisplayedAt(lastCall[1].prev.grid)

\* the cursor a navigation key is documented to lead to
Navigated(cur, sorted, key) ==
    LET r == FindRow(sorted, cur.rowId)
        c == FindColumn(cur.colId)
    IN CASE key = "ArrowDown" -> [rowId |-> sorted[Min(Len(sorted), r + 1)].id, colId |-> cur.colId]
         [] key = "ArrowUp" -> [rowId |-> sorted[Max(1, r - 1)].id, colId |-> cur.colId]
         [] key = "ArrowRight" -> [rowId |-> cur.rowId, colId |-> columns[Min(Len(columns), c + 1)].id]
         [] key = "ArrowLeft" -> [rowId |-> cur.rowId, colId |-> columns[Max(1, c - 1)].id]
         [] key = "Home" -> [rowId |-> sorted[1].id, colId |-> cur.colId]
         [] key = "End" -> [rowId |-> sorted[Len(sorted)].id, colId |-> cur.colId]

\* the cursor identifies a row of the data and a column of the grid
CursorValid(cur, rows) == FindRow(rows, cur.rowId) # 0 /\ FindColumn(cur.colId) # 0

\* C34: a set cursor always identifies a row of the current data and a
\* column of the grid, and with a cursor set and non-empty data an arrow key
\* moves it to the next or previous row of the displayed order or to the
\* next or previous column, staying in place at the first and last ones.
C34_ArrowNavigation ==
    /\ cursorPosition # <<>> => CursorValid(cursorPosition[1], data)
    /\ (/\ Did("handleKeyDown")
        /\ lastCall[1].args[1] \in ArrowKeys
        /\ lastCall[1].prev.grid.cursorPosition # <<>>
        /\ Len(lastCall[1].prev.grid.data) > 0)
       => /\ CursorValid(lastCall[1].prev.grid.cursorPosition[1], lastCall[1].prev.grid.data)
          /\ cursorPosition = <<Navigated(lastCall[1].prev.grid.cursorPosition[1],
                                          lastCall[1].prev.sorted, lastCall[1].args[1])>>

\* C35: with a cursor set on a row of the data, Home moves the cursor to the
\* first row of the displayed order and End to the last one, in the cursor's
\* column.
C35_HomeEnd ==
    (/\ Did("handleKeyDown")
     /\ lastCall[1].args[1] \in {"Home", "End"}
     /\ lastCall[1].prev.grid.cursorPosition # <<>>
     /\ CursorValid(lastCall[1].prev.grid.cursorPosition[1], lastCall[1].prev.grid.data))
    => cursorPosition = <<Navigated(lastCall[1].prev.grid.cursorPosition[1],
                                    lastCall[1].prev.sorted, lastCall[1].args[1])>>

(***************************************************************************)
(* Claims about overlapping commits (SpecOverlap)                          *)
(***************************************************************************)
\* C36: when the validation of a commit on cell A completes, by success or
\* by failure, while an edit of a different cell B is in progress, the
\* editing cell stays B's, with B's in-progress value.
C36_StaleValidationKeepsNewerEdit ==
    (/\ Did("validationSucceeded") \/ Did("validationFailed")
     /\ lastCall[1].prev.editingCell # <<>>
     /\ ~SameCell(lastCall[1].prev.editingCell[1], lastCall[1].args[1]))
    => editingCell = lastCall[1].prev.editingCell

\* C37: once the failure handlers of two overlapping commit attempts on one
\* cell have both run, in either order, the row's field holds the value it
\* had before the first attempt.
C37_OverlappingFailuresRestore ==
    (/\ Did("validationFailed")
     /\ lastCall[1].args[1].attempts = 2
     /\ lastCall[1].args[1].rejected
     /\ lastCall[1].args[1].existed
     /\ \A i \in DOMAIN pending : ~SameCell(pending[i], lastCall[1].args[1]))
    => rowMap[lastCall[1].args[1].rowId][lastCall[1].args[1].colId]
           = lastCall[1].args[1].first

(***************************************************************************)
(* Claims about the useVirtualizer hook (SpecHook)                         *)
(***************************************************************************)
\* C39: the range a render of the hook returns is the range calculateRange
\* gives for that render's scrollTop and count.
C39_RangeOfCurrentRender == range = calculateRange(options)

(***************************************************************************)
(* Claims about the sort under data changes (Spec) and about the sort      *)
(* sequence (SpecSort)                                                     *)
(***************************************************************************)
\* C38: whenever the sort sequence is non-empty, rowOrder is ordered
\* consistently with the sort comparator on the current row values: no row
\* stands before a row that the comparator puts in front of it.
C38_SortLive ==
    Len(sort) > 0 =>
        \A i, j \in DOMAIN rowOrder :
            i < j => comparator(getState, rowOrder[i], rowOrder[j]) <= 0

\* C40: the sort sequence holds at most one descriptor per columnId.
C40_OneDescriptorPerColumn ==
    \A i, j \in DOMAIN sort : sort[i].columnId = sort[j].columnId => i = j

\* a multi-mode toggle of a column that had a descriptor, next to another one
C40_Witness ==
    /\ toggled # <<>>
    /\ toggled[1].multi
    /\ HasDescriptor(toggled[1].prev.sort, toggled[1].columnId)
    /\ Len(toggled[1].prev.sort) >= 2
    /\ Len(sort) < Len(toggled[1].prev.sort)

====
